---- MODULE Spec2Model ----
(***************************************************************************)
(* Picnic2 signer / verifier core (picnic2_impl.c): tapes, aux computation,*)
(* commitments, challenge derivation (HCP), proof assembly, signature      *)
(* serialization and verification, over scaled-down parameter sets.        *)
(*                                                                         *)
(* Byte arrays are sequences of 0..255; the C index i is element i + 1.    *)
(* A share word holds one bit per party (the code fixes 64 parties in a    *)
(* uint64_t); here a word is a sequence of num_MPC_parties bits.           *)
(***************************************************************************)
EXTENDS Integers, Sequences, FiniteSets, TLC

(***************************************************************************)
(* Bits and bytes                                                          *)
(***************************************************************************)
RECURSIVE Pow2(_)
Pow2(k) == IF k = 0 THEN 1 ELSE 2 * Pow2(k - 1)

Xor(a, b) == (a + b) % 2

\* the sum of s[lo..hi], by halves
RECURSIVE SumRange(_, _, _)
SumRange(s, lo, hi) ==
  IF lo > hi THEN 0
  ELSE IF lo = hi THEN s[lo]
  ELSE LET mid == (lo + hi) \div 2
       IN  SumRange(s, lo, mid) + SumRange(s, mid + 1, hi)

SumSeq(s) == SumRange(s, 1, Len(s))

\* the byte strings of ss, one after the other
RECURSIVE Flatten(_)
Flatten(ss) == IF ss = <<>> THEN <<>> ELSE Head(ss) \o Flatten(Tail(ss))

\* TLC evaluates a function constructor on demand, element by element; Tup(f)
\* is the same sequence, built once
Tup(f) == f \o <<>>

\* F(v), with v evaluated once and before F.  TLC evaluates a definition
\* wherever it is used and again at every use; a step binds what it depends
\* on before it runs.
Bind(v, F(_)) == CHOOSE out \in {F(x) : x \in {v}} : TRUE

Zeros(len) == Tup([i \in 1..len |-> 0])

\* bytes [from, from + len) of a byte array (memcpy source range)
Slice(bytes, from, len) == Tup([i \in 1..len |-> bytes[from + i]])

numBytes(numBits) == (numBits + 7) \div 8

getBit(array, bitNumber) ==
  (array[(bitNumber \div 8) + 1] \div Pow2(7 - (bitNumber % 8))) % 2

setBit(bytes, bitNumber, val) ==
  LET idx == (bitNumber \div 8) + 1
      w   == Pow2(7 - (bitNumber % 8))
      old == (bytes[idx] \div w) % 2
  IN  [bytes EXCEPT ![idx] = @ - old * w + val * w]

parity64(word) == SumSeq(word) % 2

RECURSIVE ceil_log2(_)
ceil_log2(x) == IF x <= 1 THEN 0 ELSE 1 + ceil_log2((x + 1) \div 2)

\* uint16_t as two little-endian bytes and back
htole16(v) == <<v % 256, (v \div 256) % 256>>
le16toh(b0, b1) == b0 + 256 * b1

(***************************************************************************)
(* LowMC parameters (lowmc_t), scaled down: n state bits, m S-boxes on the *)
(* first 3 * m bits, r rounds, key matrices K_0..K_r, linear layers        *)
(* L_1..L_r and round constants.  Matrices are sequences of rows, each a   *)
(* sequence of bits.                                                       *)
(***************************************************************************)
KMatrix(i, n) ==
  Tup([rw \in 1..n |-> Tup([c \in 1..n |->
     IF (3 * (rw - 1) + 5 * (c - 1) + 7 * i + (rw - 1) * (c - 1)) % 3 = 0
     THEN 1 ELSE 0])])

LMatrix(i, n) ==
  Tup([rw \in 1..n |-> Tup([c \in 1..n |->
     IF rw = c \/ ((rw - 1) * (c - 1) + (rw - 1) + i) % 3 = 0 THEN 1 ELSE 0])])

RoundConstant(i, n) == Tup([c \in 1..n |-> (i + (c - 1) * (c - 1) + ((c - 1) \div 3)) % 2])

\* k_matrix[i + 1] is K_i; l_matrix[i] and constant[i] belong to round i
LowMC(n, m, r) ==
  [n |-> n, m |-> m, r |-> r,
   k_matrix |-> Tup([i \in 1..(r + 1) |-> KMatrix(i - 1, n)]),
   l_matrix |-> Tup([i \in 1..r |-> LMatrix(i, n)]),
   constant |-> Tup([i \in 1..r |-> RoundConstant(i, n)])]

(***************************************************************************)
(* Parameter sets (picnic_instance_t), scaled down.  SALT_SIZE is the      *)
(* program's constant.                                                     *)
(***************************************************************************)
SALT_SIZE == 32

\* word_size is sizeof(uint32_t), scaled with the state width
InstanceA ==
  [lowmc |-> LowMC(8, 1, 2), word_size |-> 1,
   num_rounds |-> 3, num_opened_rounds |-> 2, num_MPC_parties |-> 4,
   input_size |-> 1, seed_size |-> 1, digest_size |-> 2, view_size |-> 1]

Instances == {InstanceA}

(***************************************************************************)
(* H: the extendable-output hash.  A deterministic mixing function of the  *)
(* prefix byte and the absorbed bytes, squeezed to outLen bytes.           *)
(***************************************************************************)
HASH_PREFIX_1 == 1

HashModulus == 32749
HashBase == 131

\* the absorbed bytes data[lo..hi] as a polynomial in HashBase, with the power
\* of HashBase that a state absorbed before them is multiplied by
RECURSIVE AbsorbRange(_, _, _)
AbsorbRange(data, lo, hi) ==
  IF lo > hi THEN [h |-> 0, p |-> 1]
  ELSE IF lo = hi THEN [h |-> data[lo] + 1, p |-> HashBase]
  ELSE Bind(<<AbsorbRange(data, lo, (lo + hi) \div 2),
              AbsorbRange(data, ((lo + hi) \div 2) + 1, hi)>>, LAMBDA lr :
         [h |-> (lr[1].h * lr[2].p + lr[2].h) % HashModulus,
          p |-> (lr[1].p * lr[2].p) % HashModulus])

\* s -> s * HashBase + byte + 1 (mod HashModulus), byte after byte
Absorb(s, data) ==
  Bind(data, LAMBDA d :
  Bind(AbsorbRange(d, 1, Len(d)), LAMBDA a : (s * a.p + a.h) % HashModulus))

SqueezeByte(s, k) == ((((s + 977 * (k + 1)) * 251 + k) % HashModulus) \div 7) % 256

\* hash_init; hash_update(data); hash_final; hash_squeeze(outLen)
Hash(data, outLen) ==
  Bind(Absorb(17, data), LAMBDA s : Tup([k \in 1..outLen |-> SqueezeByte(s, k - 1)]))

\* hash_init_prefix(prefix); hash_update(data); hash_final; hash_squeeze(outLen)
HashPrefix(prefix, data, outLen) ==
  Bind(Absorb(17 + 101 * (prefix + 1), data), LAMBDA s :
    Tup([k \in 1..outLen |-> SqueezeByte(s, k - 1)]))

(***************************************************************************)
(* Tapes (randomTape_t): tape[j + 1] is party j's byte string, pos the bit *)
(* cursor, nTapes the number of parties.                                   *)
(***************************************************************************)
createRandomTapes(seeds, salt, t, params) ==
  LET tapeSizeBytes == 2 * params.view_size + params.input_size
  IN  [tape   |-> Tup([i \in 1..params.num_MPC_parties |->
                     Hash(Slice(seeds[i], 0, params.seed_size) \o salt
                            \o htole16(t) \o htole16(i - 1), tapeSizeBytes)]),
       pos    |-> 0,
       nTapes |-> params.num_MPC_parties]

\* one bit from each party's tape at the cursor; the cursor advances by one
tapesToWord(tapes) ==
  [word  |-> Tup([j \in 1..tapes.nTapes |-> getBit(tapes.tape[j], tapes.pos)]),
   tapes |-> [tapes EXCEPT !.pos = @ + 1]]

RECURSIVE tapesToWordsLoop(_, _, _)
tapesToWordsLoop(numWords, tapes, acc) ==
  IF Len(acc) = numWords THEN [shares |-> acc, tapes |-> tapes]
  ELSE Bind(tapesToWord(tapes), LAMBDA w :
       Bind(Append(acc, w.word), LAMBDA acc1 :
         tapesToWordsLoop(numWords, w.tapes, acc1)))

tapesToWords(numWords, tapes) == tapesToWordsLoop(numWords, tapes, <<>>)

(***************************************************************************)
(* The aux engine.  aux_mpc_AND returns the fresh output mask word, the    *)
(* updated tapes, and (for the record of the run) the gate's helper        *)
(* position and input masks.                                               *)
(***************************************************************************)
\* aux_mpc_AND with the last party's share left in and_helper
aux_mpc_AND_keepLastShare(mask_a, mask_b, tapes) ==
  Bind(tapesToWord(tapes), LAMBDA w1 :
  Bind(tapesToWord(w1.tapes), LAMBDA w2 :
    LET aux_bit   == Xor(mask_a * mask_b, parity64(w2.word))
        lastParty == tapes.nTapes - 1
    IN  [mask  |-> w1.word,
         tapes |-> [w2.tapes EXCEPT !.tape[lastParty + 1] = setBit(@, w2.tapes.pos - 1, aux_bit)],
         gate  |-> [pos |-> w2.tapes.pos - 1, mask_a |-> mask_a, mask_b |-> mask_b]]))

\* a mutation of aux_mpc_AND: the aux bit is written one position lower, over
\* the output mask
aux_mpc_AND_overMask(mask_a, mask_b, tapes) ==
  Bind(tapesToWord(tapes), LAMBDA w1 :
  Bind(tapesToWord(w1.tapes), LAMBDA w2 :
    LET and_helper == [w2.word EXCEPT ![Len(w2.word)] = 0]
        aux_bit    == Xor(mask_a * mask_b, parity64(and_helper))
        lastParty  == tapes.nTapes - 1
    IN  [mask  |-> w1.word,
         tapes |-> [w2.tapes EXCEPT
                      !.tape[lastParty + 1] = setBit(@, w2.tapes.pos - 2, aux_bit)],
         gate  |-> [pos |-> w2.tapes.pos - 1, mask_a |-> mask_a, mask_b |-> mask_b]]))

aux_mpc_AND(mask_a, mask_b, tapes) ==
  Bind(tapesToWord(tapes), LAMBDA w1 :
  Bind(tapesToWord(w1.tapes), LAMBDA w2 :
    LET \* setBit((uint8_t*)&and_helper, 63, 0): the last party's share
        and_helper == [w2.word EXCEPT ![Len(w2.word)] = 0]
        aux_bit    == Xor(mask_a * mask_b, parity64(and_helper))
        lastParty  == tapes.nTapes - 1
    IN  [mask  |-> w1.word,
         tapes |-> [w2.tapes EXCEPT
                      !.tape[lastParty + 1] = setBit(@, w2.tapes.pos - 1, aux_bit)],
         gate  |-> [pos |-> w2.tapes.pos - 1, mask_a |-> mask_a, mask_b |-> mask_b]]))

RECURSIVE sbox_aux_loop(_, _, _, _, _)
sbox_aux_loop(i, limit, state, tapes, gates) ==
  IF i >= limit THEN [d |-> state, tapes |-> tapes, gates |-> gates]
  ELSE Bind([a |-> getBit(state, i + 2), b |-> getBit(state, i + 1),
             c |-> getBit(state, i + 0)], LAMBDA in :
       Bind(aux_mpc_AND(in.a, in.b, tapes), LAMBDA r1 :
       Bind(aux_mpc_AND(in.b, in.c, r1.tapes), LAMBDA r2 :
       Bind(aux_mpc_AND(in.c, in.a, r2.tapes), LAMBDA r3 :
         LET ab == parity64(r1.mask)
             bc == parity64(r2.mask)
             ca == parity64(r3.mask)
             s1 == setBit(state, i + 2, Xor(in.a, bc))
             s2 == setBit(s1, i + 1, Xor(Xor(in.a, in.b), ca))
             s3 == setBit(s2, i + 0, Xor(Xor(Xor(in.a, in.b), in.c), ab))
         IN  Bind(<<s3, gates \o <<r1.gate, r2.gate, r3.gate>> >>, LAMBDA nx :
               sbox_aux_loop(i + 3, limit, nx[1], r3.tapes, nx[2]))))))

\* d is the state word in big-endian byte order; the code's bound 30 is 3 * m
sbox_layer_10_uint64_aux(d, tapes, params) ==
  sbox_aux_loop(0, 3 * params.lowmc.m, d, tapes, <<>>)

BytesToBits(bytes, n) == Tup([i \in 1..n |-> getBit(bytes, i - 1)])

BitsToBytes(bits) ==
  Tup([k \in 1..(Len(bits) \div 8) |->
     SumSeq([j \in 1..8 |-> bits[8 * (k - 1) + j] * Pow2(8 - j)])])

XorBits(x, y) == Tup([i \in 1..Len(x) |-> Xor(x[i], y[i])])

\* v * M over GF(2): the rows of M selected by the bits of v, XORed
MulV(v, A) ==
  Tup([c \in 1..Len(v) |-> SumSeq([rw \in 1..Len(v) |-> v[rw] * A[rw][c]]) % 2])

RECURSIVE lowmc_aux_rounds(_, _, _, _, _, _)
lowmc_aux_rounds(rnd, x, key, tapes, gates, params) ==
  IF rnd > params.lowmc.r THEN [tapes |-> tapes, gates |-> gates]
  ELSE Bind(BitsToBytes(x), LAMBDA d :
       Bind(sbox_layer_10_uint64_aux(d, tapes, params), LAMBDA sb :
       Bind(BytesToBits(sb.d, params.lowmc.n), LAMBDA st :
       Bind(<<XorBits(MulV(st, params.lowmc.l_matrix[rnd]),
                      MulV(key, params.lowmc.k_matrix[rnd + 1])),
              gates \o sb.gates>>, LAMBDA nx :
         lowmc_aux_rounds(rnd + 1, nx[1], key, sb.tapes, nx[2], params)))))

\* params->impls.lowmc_aux: LowMC on the key mask, recording the AND gates
lowmc_aux_impl(lowmc_key, tapes, params) ==
  Bind(BytesToBits(lowmc_key, params.lowmc.n), LAMBDA key :
  Bind(MulV(key, params.lowmc.k_matrix[1]), LAMBDA x :
    lowmc_aux_rounds(1, x, key, tapes, <<>>, params)))

RECURSIVE keyBitsLoop(_, _, _)
keyBitsLoop(i, shares, temp) ==
  IF i >= Len(shares) THEN temp
  ELSE Bind(setBit(temp, i, parity64(shares[i + 1])), LAMBDA temp1 :
         keyBitsLoop(i + 1, shares, temp1))

\* a mutation of computeAuxTape: the cursor is left where the aux bits ended
computeAuxTape_noReset(tapes, params) ==
  Bind(tapesToWords(params.lowmc.n, tapes), LAMBDA key :
  Bind(keyBitsLoop(0, key.shares, Zeros(32)), LAMBDA temp :
  Bind(Slice(temp, 0, params.lowmc.n \div 8), LAMBDA lowmc_key :
  Bind(lowmc_aux_impl(lowmc_key, key.tapes, params), LAMBDA res :
    [tapes |-> res.tapes, gates |-> res.gates]))))

\* tapesToWords, the key mask and lowmc_aux_impl, then tapes->pos = 0
computeAuxTape(tapes, params) ==
  Bind(tapesToWords(params.lowmc.n, tapes), LAMBDA key :
  Bind(keyBitsLoop(0, key.shares, Zeros(32)), LAMBDA temp :
  Bind(Slice(temp, 0, params.lowmc.n \div 8), LAMBDA lowmc_key :
  Bind(lowmc_aux_impl(lowmc_key, key.tapes, params), LAMBDA res :
    [tapes |-> [res.tapes EXCEPT !.pos = 0], gates |-> res.gates]))))

getAuxBits(tapes, params) ==
  LET firstAuxIndex == params.lowmc.n + 1
      last          == params.num_MPC_parties - 1
      andSizeBits   == 3 * params.lowmc.r * params.lowmc.m
      F[k \in 0..andSizeBits] ==
        IF k = 0 THEN Zeros(params.view_size)
        ELSE setBit(F[k - 1], k - 1,
                    getBit(tapes.tape[last + 1], firstAuxIndex + 2 * (k - 1)))
  IN  F[andSizeBits]

\* setAuxBits writing consecutive tape bits, not every second one
setAuxBits_consecutive(tapes, input, params) ==
  LET firstAuxIndex == params.lowmc.n + 1
      last          == params.num_MPC_parties - 1
      count         == params.view_size * 8
      F[k \in 0..count] ==
        IF k = 0 THEN tapes.tape[last + 1]
        ELSE setBit(F[k - 1], firstAuxIndex + (k - 1), getBit(input, k - 1))
  IN  [tapes EXCEPT !.tape[last + 1] = F[count]]

setAuxBits(tapes, input, params) ==
  LET firstAuxIndex == params.lowmc.n + 1
      last          == params.num_MPC_parties - 1
      count         == params.view_size * 8
      F[k \in 0..count] ==
        IF k = 0 THEN tapes.tape[last + 1]
        ELSE setBit(F[k - 1], firstAuxIndex + 2 * (k - 1), getBit(input, k - 1))
  IN  [tapes EXCEPT !.tape[last + 1] = F[count]]

(***************************************************************************)
(* The online simulation (params->impls.lowmc_simulate_online).  msgs_t is *)
(* [msgs, pos, unopened]: msgs[j + 1] is party j's broadcast bytes,        *)
(* unopened is -1 when signing.                                            *)
(***************************************************************************)
allocateMsgs(params) ==
  [msgs     |-> Tup([j \in 1..params.num_MPC_parties |->
                   Zeros(params.input_size + params.view_size)]),
   pos      |-> 0,
   unopened |-> -1]

XorWords(x, y) == Tup([j \in 1..Len(x) |-> Xor(x[j], y[j])])

\* the mask shares through a matrix: party-wise linear
MulVShares(shares, A, nParties) ==
  Tup([c \in 1..Len(shares) |->
     Tup([j \in 1..nParties |->
        SumSeq([rw \in 1..Len(shares) |-> shares[rw][j] * A[rw][c]]) % 2])])

mpc_AND(a, b, mask_a, mask_b, tapes, msgs) ==
  Bind(tapesToWord(tapes), LAMBDA w1 :
  Bind(tapesToWord(w1.tapes), LAMBDA w2 :
  Bind(Tup([j \in 1..tapes.nTapes |->
          (a * mask_b[j] + b * mask_a[j] + w2.word[j] + w1.word[j]) % 2]),
       LAMBDA s0 :
  Bind(IF msgs.unopened >= 0
       THEN [s0 EXCEPT ![msgs.unopened + 1] =
               getBit(msgs.msgs[msgs.unopened + 1], msgs.pos)]
       ELSE s0, LAMBDA s :
    [val   |-> Xor(a * b, parity64(s)),
     mask  |-> w1.word,
     tapes |-> w2.tapes,
     msgs  |-> [msgs EXCEPT
                  !.msgs = Tup([j \in 1..tapes.nTapes |->
                                  setBit(@[j], msgs.pos, s[j])]),
                  !.pos  = @ + 1]]))))

RECURSIVE mpc_sbox_loop(_, _, _, _, _, _)
mpc_sbox_loop(i, limit, state, shares, tapes, msgs) ==
  IF i >= limit
  THEN [state |-> state, shares |-> shares, tapes |-> tapes, msgs |-> msgs]
  ELSE Bind([a  |-> state[i + 3],  b  |-> state[i + 2],  c  |-> state[i + 1],
             ma |-> shares[i + 3], mb |-> shares[i + 2], mc |-> shares[i + 1]],
            LAMBDA in :
       Bind(mpc_AND(in.a, in.b, in.ma, in.mb, tapes, msgs), LAMBDA ab :
       Bind(mpc_AND(in.b, in.c, in.mb, in.mc, ab.tapes, ab.msgs), LAMBDA bc :
       Bind(mpc_AND(in.c, in.a, in.mc, in.ma, bc.tapes, bc.msgs), LAMBDA ca :
       Bind(<<[state EXCEPT
                 ![i + 3] = Xor(in.a, bc.val),
                 ![i + 2] = Xor(Xor(in.a, in.b), ca.val),
                 ![i + 1] = Xor(Xor(Xor(in.a, in.b), in.c), ab.val)],
              [shares EXCEPT
                 ![i + 3] = XorWords(in.ma, bc.mask),
                 ![i + 2] = XorWords(XorWords(in.ma, in.mb), ca.mask),
                 ![i + 1] = XorWords(XorWords(XorWords(in.ma, in.mb), in.mc),
                                     ab.mask)]>>, LAMBDA nx :
         mpc_sbox_loop(i + 3, limit, nx[1], nx[2], ca.tapes, ca.msgs))))))

RECURSIVE online_rounds(_, _, _, _, _, _, _, _)
online_rounds(rnd, state, shares, key, key_masks, tapes, msgs, params) ==
  IF rnd > params.lowmc.r
  THEN [state |-> state, shares |-> shares, tapes |-> tapes, msgs |-> msgs]
  ELSE Bind(mpc_sbox_loop(0, 3 * params.lowmc.m, state, shares, tapes, msgs),
            LAMBDA sb :
       Bind([l  |-> MulVShares(sb.shares, params.lowmc.l_matrix[rnd],
                               params.num_MPC_parties),
             k  |-> MulVShares(key_masks, params.lowmc.k_matrix[rnd + 1],
                               params.num_MPC_parties),
             st |-> XorBits(XorBits(MulV(sb.state, params.lowmc.l_matrix[rnd]),
                                    params.lowmc.constant[rnd]),
                            MulV(key, params.lowmc.k_matrix[rnd + 1]))],
            LAMBDA lin :
       Bind(Tup([c \in 1..params.lowmc.n |-> XorWords(lin.l[c], lin.k[c])]),
            LAMBDA sh :
         online_rounds(rnd + 1, lin.st, sh, key, key_masks, sb.tapes, sb.msgs,
                       params))))

\* the output shares' broadcast: party j's n output bits appended to its msgs
broadcastOutput(msgs, out_sh, params) ==
  Tup([j \in 1..params.num_MPC_parties |->
     LET F[c \in 0..params.lowmc.n] ==
           IF c = 0 THEN msgs.msgs[j]
           ELSE setBit(F[c - 1], msgs.pos + c - 1, out_sh[c][j])
     IN  F[params.lowmc.n]])

simulateOnline(maskedKey, mask_shares, tapes, msgs, plaintext, pubKey, params) ==
  Bind(BytesToBits(maskedKey, params.lowmc.n), LAMBDA key :
  Bind([st |-> XorBits(BytesToBits(plaintext, params.lowmc.n),
                       MulV(key, params.lowmc.k_matrix[1])),
        sh |-> MulVShares(mask_shares, params.lowmc.k_matrix[1],
                          params.num_MPC_parties)], LAMBDA in :
  Bind(online_rounds(1, in.st, in.sh, key, mask_shares, tapes, msgs, params),
       LAMBDA res :
  \* the unopened party's output shares come from its msgs
  Bind(IF res.msgs.unopened >= 0
       THEN Tup([c \in 1..params.lowmc.n |->
               [res.shares[c] EXCEPT ![res.msgs.unopened + 1] =
                  getBit(res.msgs.msgs[res.msgs.unopened + 1],
                         res.msgs.pos + c - 1)]])
       ELSE res.shares, LAMBDA out_sh :
  Bind(Tup([c \in 1..params.lowmc.n |-> Xor(parity64(out_sh[c]), res.state[c])]),
       LAMBDA output :
    IF output # BytesToBits(pubKey, params.lowmc.n)
    THEN [ret |-> -1, tapes |-> res.tapes, msgs |-> res.msgs]
    ELSE [ret   |-> 0,
          tapes |-> res.tapes,
          msgs  |-> [res.msgs EXCEPT !.msgs = broadcastOutput(res.msgs, out_sh, params),
                                     !.pos  = @ + params.lowmc.n]])))))

\* LowMC in the clear: the public key of a private key and plaintext
sbox_plain(state, m) ==
  Tup([p \in 1..Len(state) |->
     IF p > 3 * m THEN state[p]
     ELSE LET i == 3 * ((p - 1) \div 3)
              a == state[i + 3]
              b == state[i + 2]
              c == state[i + 1]
          IN  CASE p = i + 3 -> Xor(a, b * c)
                [] p = i + 2 -> Xor(Xor(a, b), c * a)
                [] p = i + 1 -> Xor(Xor(Xor(a, b), c), a * b)])

RECURSIVE lowmc_rounds(_, _, _, _)
lowmc_rounds(rnd, state, key, params) ==
  IF rnd > params.lowmc.r THEN state
  ELSE Bind(sbox_plain(state, params.lowmc.m), LAMBDA sb :
       Bind(XorBits(XorBits(MulV(sb, params.lowmc.l_matrix[rnd]),
                            params.lowmc.constant[rnd]),
                    MulV(key, params.lowmc.k_matrix[rnd + 1])), LAMBDA st :
         lowmc_rounds(rnd + 1, st, key, params)))

lowmc_encrypt(privateKey, plaintext, params) ==
  Bind(BytesToBits(privateKey, params.lowmc.n), LAMBDA key :
  Bind(XorBits(BytesToBits(plaintext, params.lowmc.n),
               MulV(key, params.lowmc.k_matrix[1])), LAMBDA st :
    BitsToBytes(lowmc_rounds(1, st, key, params))))

(***************************************************************************)
(* Commitments.  A NULL aux pointer is the empty sequence.                 *)
(***************************************************************************)
NULL == <<>>

\* C[t][j] = H(seed || [aux] || salt || t || j)
commit(seed, aux, salt, t, j, params) ==
  Hash(Slice(seed, 0, params.seed_size)
         \o (IF aux # NULL THEN Slice(aux, 0, params.view_size) ELSE <<>>)
         \o salt \o htole16(t) \o htole16(j),
       params.digest_size)

\* four commitments at once, for parties j .. j + 3, none with aux
commit_x4(seed, salt, t, j, params) ==
  Tup([k \in 1..4 |->
     Hash(Slice(seed[k], 0, params.seed_size) \o salt \o htole16(t)
            \o htole16(j + k - 1), params.digest_size)])

commit_h(C, params) ==
  Hash(Flatten(Tup([i \in 1..params.num_MPC_parties |->
                     Slice(C[i], 0, params.digest_size)])),
       params.digest_size)

\* commitment to the views of one repetition
commit_v(input, msgs, params) ==
  Hash(Slice(input, 0, params.input_size)
         \o Flatten(Tup([i \in 1..params.num_MPC_parties |->
                          Slice(msgs.msgs[i], 0, numBytes(msgs.pos))])),
       params.digest_size)

(***************************************************************************)
(* Challenge lists                                                         *)
(***************************************************************************)
contains(list, len, value) ==
  IF \E i \in 0..(len - 1) : list[i + 1] = value THEN 1 ELSE 0

\* the first index holding value; -1 (behind an assert) when there is none
indexOf(list, len, value) ==
  IF \E i \in 0..(len - 1) : list[i + 1] = value
  THEN CHOOSE i \in 0..(len - 1) :
         /\ list[i + 1] = value
         /\ \A k \in 0..(i - 1) : list[k + 1] # value
  ELSE -1

\* chunks[i] = sum of getBit(input, i * chunkLenBits + j) << j, a uint16_t
\* stored by the host and read back little-endian
bitsToChunks(chunkLenBits, input, inputLen) ==
  IF chunkLenBits > inputLen * 8 THEN <<>>
  ELSE Tup([i \in 1..((inputLen * 8) \div chunkLenBits) |->
          LET v == SumSeq([j \in 1..chunkLenBits |->
                     getBit(input, (i - 1) * chunkLenBits + (j - 1))
                       * Pow2(j - 1)]) % 65536
          IN  le16toh(v % 256, v \div 256)])

\* list[position] = value: a store at or past the end lengthens the sequence
StoreAt(list, position, value) ==
  IF position < Len(list) THEN [list EXCEPT ![position + 1] = value]
  ELSE list \o Zeros(position - Len(list)) \o <<value>>

\* appendUnique storing the value without looking for it first
appendUnique_unchecked(list, value, position) ==
  [list |-> StoreAt(list, position, value), position |-> position + 1]

appendUnique(list, value, position) ==
  IF position = 0
  THEN [list |-> StoreAt(list, position, value), position |-> position + 1]
  ELSE IF \E i \in 0..(position - 1) : list[i + 1] = value
  THEN [list |-> list, position |-> position]
  ELSE [list |-> StoreAt(list, position, value), position |-> position + 1]

(***************************************************************************)
(* Trees (tree_t), for seeds and for the Merkle commitment.  Nodes are     *)
(* numbered as a heap from 1: node i has children 2i and 2i + 1, the       *)
(* leaves are nodes 2^depth .. 2^depth + numLeaves - 1, and a node exists  *)
(* when a leaf lies under it.  The code's node index is i - 1.             *)
(***************************************************************************)
HASH_PREFIX_3 == 3

RECURSIVE IsAncestor(_, _)
IsAncestor(i, node) ==
  IF node = i THEN TRUE ELSE IF node < i THEN FALSE ELSE IsAncestor(i, node \div 2)

LeavesUnder(i, numLeaves) ==
  {k \in 0..(numLeaves - 1) : IsAncestor(i, Pow2(ceil_log2(numLeaves)) + k)}

NodeCount(numLeaves) == Pow2(ceil_log2(numLeaves) + 1) - 1

NodeExists(i, numLeaves) == LeavesUnder(i, numLeaves) # {}

IsLeafNode(i, numLeaves) == i >= Pow2(ceil_log2(numLeaves))

\* the elements of a set of numbers, ascending
SortedSeq(S) ==
  Tup([rank \in 1..Cardinality(S) |->
     CHOOSE x \in S : Cardinality({y \in S : y < x}) = rank - 1])

ListSet(list, len) == {list[k + 1] : k \in 0..(len - 1)}

createTree(numLeaves, dataSize) ==
  [numLeaves |-> numLeaves,
   dataSize  |-> dataSize,
   nodes     |-> Tup([i \in 1..NodeCount(numLeaves) |-> Zeros(dataSize)]),
   haveNode  |-> Tup([i \in 1..NodeCount(numLeaves) |-> 0])]

getLeaf(tree, j) == tree.nodes[Pow2(ceil_log2(tree.numLeaves)) + j]

getLeaves(tree) == Tup([j \in 1..tree.numLeaves |-> getLeaf(tree, j - 1)])

\* the two children's seeds of a node: H(prefix_1, seed || salt || rep || node)
expandSeed(seed, salt, repIndex, i, params) ==
  HashPrefix(HASH_PREFIX_1, seed \o salt \o htole16(repIndex) \o htole16(i - 1),
             2 * params.seed_size)

childSeed(expanded, i, params) ==
  IF i % 2 = 0 THEN Slice(expanded, 0, params.seed_size)
  ELSE Slice(expanded, params.seed_size, params.seed_size)

generateSeeds(nSeeds, rootSeed, salt, repIndex, params) ==
  LET S[i \in 1..NodeCount(nSeeds)] ==
        IF i = 1 THEN Slice(rootSeed, 0, params.seed_size)
        ELSE IF ~NodeExists(i, nSeeds) THEN Zeros(params.seed_size)
        ELSE childSeed(expandSeed(S[i \div 2], salt, repIndex, i \div 2, params),
                       i, params)
  IN  [numLeaves |-> nSeeds,
       dataSize  |-> params.seed_size,
       nodes     |-> Tup([i \in 1..NodeCount(nSeeds) |-> S[i]]),
       haveNode  |-> Tup([i \in 1..NodeCount(nSeeds) |->
                        IF NodeExists(i, nSeeds) THEN 1 ELSE 0])]

\* the highest nodes with no hidden leaf under them, ascending
revealedNodes(numLeaves, hideList, hideListSize) ==
  LET hidden == ListSet(hideList, hideListSize)
  IN  SortedSeq({i \in 1..NodeCount(numLeaves) :
         /\ NodeExists(i, numLeaves)
         /\ LeavesUnder(i, numLeaves) \cap hidden = {}
         /\ i = 1 \/ LeavesUnder(i \div 2, numLeaves) \cap hidden # {}})

revealSeedsSize(numNodes, hideList, hideListSize, params) ==
  Len(revealedNodes(numNodes, hideList, hideListSize)) * params.seed_size

\* the revealed nodes' seeds; the result is output with its length
revealSeeds(tree, hideList, hideListSize, outputLen, params) ==
  Bind(revealedNodes(tree.numLeaves, hideList, hideListSize), LAMBDA rev :
    IF Len(rev) * params.seed_size > outputLen THEN <<>>
    ELSE Flatten(Tup([k \in 1..Len(rev) |-> tree.nodes[rev[k]]])))

reconstructSeeds(tree, hideList, hideListSize, input, inputLen, salt, repIndex, params) ==
  Bind(revealedNodes(tree.numLeaves, hideList, hideListSize), LAMBDA rev :
    IF inputLen # Len(rev) * params.seed_size
    THEN [ret |-> -1, tree |-> tree]
    ELSE LET R[i \in 1..NodeCount(tree.numLeaves)] ==
               IF \E k \in 1..Len(rev) : rev[k] = i
               THEN [have |-> 1,
                     v    |-> Slice(input,
                                ((CHOOSE k \in 1..Len(rev) : rev[k] = i) - 1)
                                  * params.seed_size,
                                params.seed_size)]
               ELSE IF i > 1 /\ NodeExists(i, tree.numLeaves)
               THEN Bind(R[i \div 2], LAMBDA par :
                      IF par.have = 1
                      THEN [have |-> 1,
                            v |-> childSeed(expandSeed(par.v, salt, repIndex,
                                                       i \div 2, params), i, params)]
                      ELSE [have |-> 0, v |-> tree.nodes[i]])
               ELSE [have |-> 0, v |-> tree.nodes[i]]
         IN  Bind(Tup([i \in 1..NodeCount(tree.numLeaves) |-> R[i]]), LAMBDA rs :
               [ret  |-> 0,
                tree |-> [tree EXCEPT
                            !.nodes    = Tup([i \in 1..Len(rs) |-> rs[i].v]),
                            !.haveNode = Tup([i \in 1..Len(rs) |-> rs[i].have])]]))

\* a parent's hash: H(prefix_3, left || [right] || salt || node)
parentHash(left, right, salt, i, params) ==
  HashPrefix(HASH_PREFIX_3, left \o right \o salt \o htole16(i - 1),
             params.digest_size)

buildMerkleTree(tree, leafData, salt, params) ==
  LET L == tree.numLeaves
      B[i \in 1..NodeCount(L)] ==
        IF ~NodeExists(i, L) THEN Zeros(params.digest_size)
        ELSE IF IsLeafNode(i, L) THEN leafData[i - Pow2(ceil_log2(L)) + 1]
        ELSE parentHash(B[2 * i],
                        IF NodeExists(2 * i + 1, L) THEN B[2 * i + 1] ELSE <<>>,
                        salt, i, params)
  IN  [tree EXCEPT
         !.nodes    = Tup([i \in 1..NodeCount(L) |-> B[i]]),
         !.haveNode = Tup([i \in 1..NodeCount(L) |->
                             IF NodeExists(i, L) THEN 1 ELSE 0])]

\* the highest nodes with only missing leaves under them, ascending
openedNodes(numLeaves, missingLeaves, missingLeavesSize) ==
  LET missing == ListSet(missingLeaves, missingLeavesSize)
  IN  SortedSeq({i \in 1..NodeCount(numLeaves) :
         /\ NodeExists(i, numLeaves)
         /\ LeavesUnder(i, numLeaves) \subseteq missing
         /\ i = 1 \/ ~(LeavesUnder(i \div 2, numLeaves) \subseteq missing)})

openMerkleTreeSize(numLeaves, missingLeaves, missingLeavesSize, params) ==
  Len(openedNodes(numLeaves, missingLeaves, missingLeavesSize)) * params.digest_size

\* the opened nodes' hashes; the result is the output with its length
openMerkleTree(tree, missingLeaves, missingLeavesSize) ==
  Bind(openedNodes(tree.numLeaves, missingLeaves, missingLeavesSize), LAMBDA op :
    Flatten(Tup([k \in 1..Len(op) |-> tree.nodes[op[k]]])))

addMerkleNodes(tree, missingLeaves, missingLeavesSize, input, inputSize) ==
  Bind(openedNodes(tree.numLeaves, missingLeaves, missingLeavesSize), LAMBDA op :
    IF inputSize # Len(op) * tree.dataSize
    THEN [ret |-> -1, tree |-> tree]
    ELSE [ret  |-> 0,
          tree |-> [tree EXCEPT
            !.nodes = Tup([i \in 1..Len(@) |->
               IF \E k \in 1..Len(op) : op[k] = i
               THEN Slice(input,
                          ((CHOOSE k \in 1..Len(op) : op[k] = i) - 1) * tree.dataSize,
                          tree.dataSize)
               ELSE @[i]]),
            !.haveNode = Tup([i \in 1..Len(@) |->
               IF \E k \in 1..Len(op) : op[k] = i THEN 1 ELSE @[i]])]])

\* leafData[k + 1] is NULL for a leaf the verifier did not recompute
verifyMerkleTree(tree, leafData, salt, params) ==
  LET L     == tree.numLeaves
      first == Pow2(ceil_log2(L))
  IN  IF \E k \in 0..(L - 1) : leafData[k + 1] # NULL /\ tree.haveNode[first + k] = 1
      THEN [ret |-> -1, tree |-> tree]
      ELSE LET V[i \in 1..NodeCount(L)] ==
                 IF ~NodeExists(i, L) THEN [have |-> 0, v |-> tree.nodes[i]]
                 ELSE IF tree.haveNode[i] = 1 THEN [have |-> 1, v |-> tree.nodes[i]]
                 ELSE IF IsLeafNode(i, L)
                 THEN IF leafData[i - first + 1] # NULL
                      THEN [have |-> 1, v |-> leafData[i - first + 1]]
                      ELSE [have |-> 0, v |-> tree.nodes[i]]
                 ELSE Bind(<<V[2 * i],
                             IF NodeExists(2 * i + 1, L) THEN V[2 * i + 1]
                             ELSE [have |-> 1, v |-> <<>>]>>, LAMBDA ch :
                        IF ch[1].have = 1 /\ ch[2].have = 1
                        THEN [have |-> 1,
                              v |-> parentHash(ch[1].v, ch[2].v, salt, i, params)]
                        ELSE [have |-> 0, v |-> tree.nodes[i]])
           IN  Bind(Tup([i \in 1..NodeCount(L) |-> V[i]]), LAMBDA vs :
                 [ret  |-> IF vs[1].have = 1 THEN 0 ELSE -1,
                  tree |-> [tree EXCEPT
                              !.nodes    = Tup([i \in 1..Len(vs) |-> vs[i].v]),
                              !.haveNode = Tup([i \in 1..Len(vs) |-> vs[i].have])]])

(***************************************************************************)
(* HCP: the challenge lists from the commitments.  The lists are the       *)
(* caller's arrays of num_opened_rounds entries.                           *)
(***************************************************************************)
\* the for loop over the chunks of one hash, filling challengeC
RECURSIVE chunksToC(_, _, _, _, _)
chunksToC(chunks, i, challengeC, countC, params) ==
  IF i >= Len(chunks) THEN [list |-> challengeC, position |-> countC]
  ELSE Bind(IF chunks[i + 1] < params.num_rounds
            THEN appendUnique(challengeC, chunks[i + 1], countC)
            ELSE [list |-> challengeC, position |-> countC], LAMBDA st :
         IF st.position = params.num_opened_rounds THEN st
         ELSE chunksToC(chunks, i + 1, st.list, st.position, params))

\* the loop of challengeP leaving repeated chunks out, as challengeC does
RECURSIVE chunksToP_unique(_, _, _, _, _)
chunksToP_unique(chunks, i, challengeP, countP, params) ==
  IF i >= Len(chunks) THEN [list |-> challengeP, position |-> countP]
  ELSE Bind(IF chunks[i + 1] < params.num_MPC_parties
            THEN appendUnique(challengeP, chunks[i + 1], countP)
            ELSE [list |-> challengeP, position |-> countP], LAMBDA st :
         IF st.position = params.num_opened_rounds THEN st
         ELSE chunksToP_unique(chunks, i + 1, st.list, st.position, params))

\* the for loop over the chunks of one hash, filling challengeP
RECURSIVE chunksToP(_, _, _, _, _)
chunksToP(chunks, i, challengeP, countP, params) ==
  IF i >= Len(chunks) THEN [list |-> challengeP, position |-> countP]
  ELSE Bind(IF chunks[i + 1] < params.num_MPC_parties
            THEN [list |-> StoreAt(challengeP, countP, chunks[i + 1]),
                  position |-> countP + 1]
            ELSE [list |-> challengeP, position |-> countP], LAMBDA st :
         IF st.position = params.num_opened_rounds THEN st
         ELSE chunksToP(chunks, i + 1, st.list, st.position, params))

\* while (countC < num_opened_rounds): chunks of h, then h = H(prefix_1, h)
RECURSIVE populateC(_, _, _, _)
populateC(h, challengeC, countC, params) ==
  IF countC >= params.num_opened_rounds THEN [h |-> h, list |-> challengeC]
  ELSE Bind(bitsToChunks(ceil_log2(params.num_rounds), h, params.digest_size),
            LAMBDA chunks :
       Bind(chunksToC(chunks, 0, challengeC, countC, params), LAMBDA st :
       Bind(HashPrefix(HASH_PREFIX_1, Slice(h, 0, params.digest_size),
                       params.digest_size), LAMBDA h1 :
         populateC(h1, st.list, st.position, params))))

RECURSIVE populateP(_, _, _, _)
populateP(h, challengeP, countP, params) ==
  IF countP >= params.num_opened_rounds THEN [h |-> h, list |-> challengeP]
  ELSE Bind(bitsToChunks(ceil_log2(params.num_MPC_parties), h, params.digest_size),
            LAMBDA chunks :
       Bind(chunksToP(chunks, 0, challengeP, countP, params), LAMBDA st :
       Bind(HashPrefix(HASH_PREFIX_1, Slice(h, 0, params.digest_size),
                       params.digest_size), LAMBDA h1 :
         populateP(h1, st.list, st.position, params))))

HCP(challengeC, challengeP, Ch, hCv, salt, pubKey, plaintext, message, params) ==
  Bind(Hash(Flatten(Tup([t \in 1..params.num_rounds |->
                           Slice(Ch[t], 0, params.digest_size)]))
              \o Slice(hCv, 0, params.digest_size)
              \o salt
              \o Slice(pubKey, 0, params.input_size)
              \o Slice(plaintext, 0, params.input_size)
              \o message,
            params.digest_size), LAMBDA h :
  Bind(populateC(h, challengeC, 0, params), LAMBDA c :
  Bind(populateP(c.h, challengeP, 0, params), LAMBDA p :
    [challengeC |-> c.list, challengeP |-> p.list])))

getMissingLeavesList(challengeC, params) ==
  SortedSeq({i \in 0..(params.num_rounds - 1) :
               contains(challengeC, params.num_opened_rounds, i) = 0})

(***************************************************************************)
(* Signature structures (signature2_t, proof2_t)                           *)
(***************************************************************************)
\* allocateProof2: zeroed buffers; an unopened round's proof stays unallocated
allocateProof2(params) ==
  [seedInfo      |-> <<>>,
   seedInfoLen   |-> 0,
   aux           |-> Zeros(params.view_size),
   C             |-> Zeros(params.digest_size),
   input         |-> Zeros(params.input_size),
   msgs          |-> Zeros(params.input_size + params.view_size),
   unOpenedIndex |-> 0]

allocateSignature2(params) ==
  [salt       |-> Zeros(SALT_SIZE),
   iSeedInfo  |-> <<>>, iSeedInfoLen |-> 0,
   cvInfo     |-> <<>>, cvInfoLen    |-> 0,
   challengeC |-> Zeros(params.num_opened_rounds),
   challengeP |-> Zeros(params.num_opened_rounds),
   proofs     |-> Tup([t \in 1..params.num_rounds |-> NULL])]

computeSaltAndRootSeed(saltAndRootLength, privateKey, pubKey, plaintext, message, params) ==
  Hash(Slice(privateKey, 0, params.input_size)
         \o message
         \o Slice(pubKey, 0, params.input_size)
         \o Slice(plaintext, 0, params.input_size)
         \o htole16(params.lowmc.n),
       saltAndRootLength)

\* maskedKey = the parity of each mask share word, as bytes
reconstructShares(shares) ==
  BitsToBytes(Tup([i \in 1..Len(shares) |-> parity64(shares[i])]))

\* the first len words of a XOR b, the rest of a as it is
xor_word_array(a, b, len, params) ==
  Tup([i \in 1..Len(a) |->
     IF i <= len * params.word_size
     THEN SumSeq([k \in 1..8 |->
            Xor((a[i] \div Pow2(k - 1)) % 2, (b[i] \div Pow2(k - 1)) % 2)
              * Pow2(k - 1)])
     ELSE a[i]])

(***************************************************************************)
(* Serialization.  A buffer is a byte sequence; memcpy into it at an       *)
(* offset is WriteAt, memcpy out of it is ReadAt.  A read past the end of  *)
(* the bytes handed in yields 0 here and shows in the readEnd the          *)
(* deserializer reports.                                                   *)
(***************************************************************************)
WriteAt(buf, off, data) ==
  Tup([i \in 1..Len(buf) |->
     IF i > off /\ i <= off + Len(data) THEN data[i - off] ELSE buf[i]])

ReadAt(buf, off, len) ==
  Tup([i \in 1..len |-> IF off + i <= Len(buf) THEN buf[off + i] ELSE 0])

Max(a, b) == IF a >= b THEN a ELSE b

inRange(list, len, low, high) ==
  IF \E i \in 0..(len - 1) : list[i + 1] > high \/ list[i + 1] < low THEN 0 ELSE 1

\* unique with both loops stopping one entry early
unique_shortLoops(list, len) ==
  IF \E i \in 0..(len - 2), j \in 0..(len - 2) : j # i /\ list[i + 1] = list[j + 1]
  THEN 0 ELSE 1

unique(list, len) ==
  IF \E i \in 0..(len - 1), j \in 0..(len - 1) : j # i /\ list[i + 1] = list[j + 1]
  THEN 0 ELSE 1

\* arePaddingBitsZero starting one bit late
arePaddingBitsZero_lateStart(data, byteLength, bitLength) ==
  IF \E i \in (bitLength + 1)..(byteLength * 8 - 1) : getBit(data, i) # 0 THEN 0 ELSE 1

arePaddingBitsZero(data, byteLength, bitLength) ==
  IF \E i \in bitLength..(byteLength * 8 - 1) : getBit(data, i) # 0 THEN 0 ELSE 1

\* deserialize_u16 taking the first byte of each pair as the high one
deserialize_u16_bigEndian(src, size) ==
  Tup([k \in 1..size |-> le16toh(src[2 * k], src[2 * k - 1])])

\* size little-endian uint16_t values out of 2 * size bytes
deserialize_u16(src, size) ==
  Tup([k \in 1..size |-> le16toh(src[2 * k - 1], src[2 * k])])

serialize_u16(src, size) ==
  Flatten(Tup([k \in 1..size |-> htole16(src[k])]))

\* the hidden party of an opened round t
HiddenParty(sig, t, params) ==
  sig.challengeP[indexOf(sig.challengeC, params.num_opened_rounds, t) + 1]

\* the first loop over the rounds: the bytes the proofs take
RECURSIVE proofBytesRequired(_, _, _, _)
proofBytesRequired(t, sig, seedInfoLenOf(_), params) ==
  IF t >= params.num_rounds THEN 0
  ELSE (IF contains(sig.challengeC, params.num_opened_rounds, t) = 1
        THEN seedInfoLenOf(t)
             + (IF HiddenParty(sig, t, params) # params.num_MPC_parties - 1
                THEN params.view_size ELSE 0)
             + params.digest_size
             + params.input_size
             + params.input_size + params.view_size
        ELSE 0)
       + proofBytesRequired(t + 1, sig, seedInfoLenOf, params)

\* the second loop over the rounds: the proofs written at the cursor
RECURSIVE writeProofs(_, _, _, _, _)
writeProofs(t, sig, sigBytes, off, params) ==
  IF t >= params.num_rounds THEN [sigBytes |-> sigBytes, off |-> off]
  ELSE IF contains(sig.challengeC, params.num_opened_rounds, t) = 0
  THEN writeProofs(t + 1, sig, sigBytes, off, params)
  ELSE LET proof  == sig.proofs[t + 1]
           hasAux == HiddenParty(sig, t, params) # params.num_MPC_parties - 1
           o1     == off + proof.seedInfoLen
           o2     == o1 + (IF hasAux THEN params.view_size ELSE 0)
           o3     == o2 + params.input_size
           o4     == o3 + params.input_size + params.view_size
       IN  Bind(WriteAt(sigBytes, off, ReadAt(proof.seedInfo, 0, proof.seedInfoLen)),
                LAMBDA b1 :
           Bind(IF hasAux
                THEN WriteAt(b1, o1, ReadAt(proof.aux, 0, params.view_size))
                ELSE b1, LAMBDA b2 :
           Bind(WriteAt(b2, o2, ReadAt(proof.input, 0, params.input_size)),
                LAMBDA b3 :
           Bind(WriteAt(b3, o3,
                        ReadAt(proof.msgs, 0, params.input_size + params.view_size)),
                LAMBDA b4 :
           Bind(WriteAt(b4, o4, ReadAt(proof.C, 0, params.digest_size)),
                LAMBDA b5 :
             writeProofs(t + 1, sig, b5, o4 + params.digest_size, params))))))

\* the buffer check refusing a buffer of exactly the bytes required
bufferTooSmall_orExact(sigBytesLen, bytesRequired) == sigBytesLen <= bytesRequired

\* if (sigBytesLen < bytesRequired) return -1;
bufferTooSmall(sigBytesLen, bytesRequired) == sigBytesLen < bytesRequired

\* sigBytes is the caller's buffer of sigBytesLen bytes; the result is the
\* return value and the buffer afterwards
serializeSignature2(sig, sigBytes, sigBytesLen, params) ==
  LET seedInfoLenOf(t) == sig.proofs[t + 1].seedInfoLen
      bytesRequired ==
        4 * params.num_opened_rounds + SALT_SIZE
          + sig.iSeedInfoLen + sig.cvInfoLen
          + proofBytesRequired(0, sig, seedInfoLenOf, params)
      o1 == 2 * params.num_opened_rounds
      o2 == o1 + 2 * params.num_opened_rounds
      o3 == o2 + SALT_SIZE
      o4 == o3 + sig.iSeedInfoLen
      o5 == o4 + sig.cvInfoLen
  IN  IF bufferTooSmall(sigBytesLen, bytesRequired)
      THEN [ret |-> -1, sigBytes |-> sigBytes]
      ELSE Bind(WriteAt(sigBytes, 0,
                        serialize_u16(sig.challengeC, params.num_opened_rounds)),
                LAMBDA b1 :
           Bind(WriteAt(b1, o1,
                        serialize_u16(sig.challengeP, params.num_opened_rounds)),
                LAMBDA b2 :
           Bind(WriteAt(b2, o2, ReadAt(sig.salt, 0, SALT_SIZE)), LAMBDA b3 :
           Bind(WriteAt(b3, o3, ReadAt(sig.iSeedInfo, 0, sig.iSeedInfoLen)),
                LAMBDA b4 :
           Bind(WriteAt(b4, o4, ReadAt(sig.cvInfo, 0, sig.cvInfoLen)), LAMBDA b5 :
           Bind(writeProofs(0, sig, b5, o5, params), LAMBDA w :
             [ret |-> w.off, sigBytes |-> w.sigBytes]))))))

(***************************************************************************)
(* Deserialization.  The result holds the return value, the structure as   *)
(* far as it was filled, and a record of the run: whether the sizes were   *)
(* computed from challengeC, the rounds whose proof was allocated, the end *)
(* of the furthest read, and whether a copy ran past its destination.      *)
(***************************************************************************)
EXIT_SUCCESS == 0
EXIT_FAILURE == 1

\* the record of a run: rounds with an allocated proof, end of the furthest
\* read, and whether a copy ran past its destination
DeserRun(allocated, readEnd, overrun) ==
  [allocated |-> allocated, readEnd |-> readEnd, overrun |-> overrun]

DeserResult(ret, sig, sizesComputed, run) ==
  [ret |-> ret, sig |-> sig, sizesComputed |-> sizesComputed,
   allocated |-> run.allocated, readEnd |-> run.readEnd, overrun |-> run.overrun]

\* the loop reading the proofs, from round t at offset off
RECURSIVE readProofs(_, _, _, _, _, _, _)
readProofs(t, sig, sigBytes, off, seedInfoLen, run, params) ==
  IF t >= params.num_rounds THEN DeserResult(EXIT_SUCCESS, sig, TRUE, run)
  ELSE IF contains(sig.challengeC, params.num_opened_rounds, t) = 0
  THEN readProofs(t + 1, sig, sigBytes, off, seedInfoLen, run, params)
  ELSE LET hasAux == HiddenParty(sig, t, params) # params.num_MPC_parties - 1
           o1     == off + seedInfoLen
           o2     == o1 + (IF hasAux THEN params.view_size ELSE 0)
           o3     == o2 + params.input_size
           msgsByteLength == params.input_size + params.view_size
           msgsBitLength  == params.lowmc.n + 3 * params.lowmc.r * params.lowmc.m
           o4     == o3 + msgsByteLength
           alloc1 == run.allocated \cup {t}
           over1  == run.overrun \/ params.seed_size > params.input_size
           end2   == Max(run.readEnd, o2)
           end4   == Max(Max(run.readEnd, o2 + params.seed_size), o4)
       IN  Bind([allocateProof2(params) EXCEPT
                   !.seedInfoLen = seedInfoLen,
                   !.seedInfo    = ReadAt(sigBytes, off, seedInfoLen)], LAMBDA p1 :
           Bind(IF hasAux
                THEN [p1 EXCEPT !.aux = ReadAt(sigBytes, o1, params.view_size)]
                ELSE p1, LAMBDA p2 :
           IF hasAux /\ arePaddingBitsZero(p2.aux, params.view_size,
                          3 * params.lowmc.r * params.lowmc.m) = 0
           THEN DeserResult(-1, [sig EXCEPT !.proofs[t + 1] = p2], TRUE,
                            DeserRun(alloc1, end2, run.overrun))
           ELSE
           Bind([p2 EXCEPT
                   !.input = WriteAt(@, 0, ReadAt(sigBytes, o2, params.seed_size)),
                   !.msgs  = ReadAt(sigBytes, o3, msgsByteLength)], LAMBDA p3 :
           IF arePaddingBitsZero(p3.msgs, msgsByteLength, msgsBitLength) = 0
           THEN DeserResult(-1, [sig EXCEPT !.proofs[t + 1] = p3], TRUE,
                            DeserRun(alloc1, end4, over1))
           ELSE
           Bind([sig EXCEPT !.proofs[t + 1] =
                   [p3 EXCEPT !.C = ReadAt(sigBytes, o4, params.digest_size)]],
                LAMBDA sig1 :
             readProofs(t + 1, sig1, sigBytes, o4 + params.digest_size, seedInfoLen,
                        DeserRun(alloc1, Max(end4, o4 + params.digest_size), over1),
                        params)))))

\* the length check letting bytes after the last proof pass
wrongLength_shortOnly(sigBytesLen, bytesRequired) == sigBytesLen < bytesRequired

\* if (sigBytesLen != bytesRequired) return EXIT_FAILURE;
wrongLength(sigBytesLen, bytesRequired) == sigBytesLen # bytesRequired

\* sigBytes are the sigBytesLen bytes handed in
deserializeSignature2(sig, sigBytes, sigBytesLen, params) ==
  LET tau    == params.num_opened_rounds
      header == 4 * tau + SALT_SIZE
  IN  IF sigBytesLen < header
      THEN DeserResult(EXIT_FAILURE, sig, FALSE, DeserRun({}, 0, FALSE))
      ELSE
      Bind([sig EXCEPT
              !.challengeC = deserialize_u16(ReadAt(sigBytes, 0, 2 * tau), tau),
              !.challengeP = deserialize_u16(ReadAt(sigBytes, 2 * tau, 2 * tau), tau),
              !.salt       = ReadAt(sigBytes, 4 * tau, SALT_SIZE)], LAMBDA s1 :
      IF inRange(s1.challengeC, tau, 0, params.num_rounds - 1) = 0
      THEN DeserResult(EXIT_FAILURE, s1, FALSE, DeserRun({}, header, FALSE))
      ELSE IF unique(s1.challengeC, tau) = 0
      THEN DeserResult(EXIT_FAILURE, s1, FALSE, DeserRun({}, header, FALSE))
      ELSE IF inRange(s1.challengeP, tau, 0, params.num_MPC_parties - 1) = 0
      THEN DeserResult(EXIT_FAILURE, s1, FALSE, DeserRun({}, header, FALSE))
      ELSE
      Bind([s1 EXCEPT
              !.iSeedInfoLen = revealSeedsSize(params.num_rounds, s1.challengeC,
                                               tau, params),
              !.cvInfoLen    = openMerkleTreeSize(params.num_rounds,
                                 getMissingLeavesList(s1.challengeC, params),
                                 params.num_rounds - tau, params)], LAMBDA s2 :
      Bind(revealSeedsSize(params.num_MPC_parties, <<0>>, 1, params),
           LAMBDA seedInfoLen :
      LET fixedLen(t) == seedInfoLen
          bytesRequired == header + s2.iSeedInfoLen + s2.cvInfoLen
                             + proofBytesRequired(0, s2, fixedLen, params)
          proofsAt == header + s2.iSeedInfoLen + s2.cvInfoLen
      IN  IF wrongLength(sigBytesLen, bytesRequired)
          THEN DeserResult(EXIT_FAILURE, s2, TRUE, DeserRun({}, header, FALSE))
          ELSE
          Bind([s2 EXCEPT
                  !.iSeedInfo = ReadAt(sigBytes, header, s2.iSeedInfoLen),
                  !.cvInfo    = ReadAt(sigBytes, header + s2.iSeedInfoLen,
                                       s2.cvInfoLen)], LAMBDA s3 :
            readProofs(0, s3, sigBytes, proofsAt, seedInfoLen,
                       DeserRun({}, proofsAt, FALSE), params)))))

(***************************************************************************)
(* The program state.  The per-round arrays seeds, tapes, C, inputs, msgs, *)
(* Ch, Cv hold entry t at index t + 1 and NULL where nothing is stored;    *)
(* sign_picnic2 and verify_picnic2 have locals of the same names and never *)
(* run at the same time, so one variable stands for both.                  *)
(***************************************************************************)
VARIABLES
  params, privateKey, pubKey, plaintext, message,  \* the arguments
  signature, signature_len,    \* the caller's buffer and *signature_len
  pc, t,                       \* position in the code and the round loop index
  sig,                         \* the signature2_t being filled or read
  iSeedsTree, seeds, tapes, C, inputs, msgs, Ch, Cv, treeCv, ret,
  challengeC, challengeP,      \* verify_picnic2's recomputed lists
  signRet, verifyRet,          \* impl_sign_picnic2 / impl_verify_picnic2 results
  signed,                      \* what sign_picnic2 left in sig, and its buffer
  simRets,                     \* sign_picnic2: rv of simulateOnline, round by round
  deser,                       \* the deserializer's result and run record
  checks,                      \* verify_picnic2: <<outcome>> of each step run so far
  auxGates,                   \* per round, the AND gates computeAuxTape recorded
  mzd,                         \* the matrix kernel: the last call, its operands and results
  fn                           \* a function called on its own: its arguments and what it left

vars == <<params, privateKey, pubKey, plaintext, message, signature, signature_len,
          pc, t, sig, iSeedsTree, seeds, tapes, C, inputs, msgs, Ch, Cv, treeCv,
          ret, challengeC, challengeP, signRet, verifyRet, signed, simRets, deser,
          checks, auxGates, mzd, fn>>

args == <<params, privateKey, pubKey, plaintext, message>>

\* the bounds of the inputs
MaxMessageLen == 2
SmallBuffer == 58
LargeBuffer == 64

PrivateKeys == {<<5>>, <<200>>}
Plaintexts  == {<<77>>}
Messages    == {Tup([i \in 1..len |-> 64 + i]) : len \in 0..MaxMessageLen}
BufferLengths == {SmallBuffer, LargeBuffer}

\* the byte an untouched buffer position holds
BufferFill == 170

NullRounds(p) == Tup([i \in 1..p.num_rounds |-> NULL])

NoChecks == [iSeeds |-> NULL, seeds |-> NULL, sim |-> NULL, addNodes |-> NULL,
             merkle |-> NULL, challenge |-> NULL]

Init ==
  /\ params \in Instances
  /\ privateKey \in PrivateKeys
  /\ plaintext \in Plaintexts
  /\ \E valid \in BOOLEAN :
       pubKey = IF valid THEN lowmc_encrypt(privateKey, plaintext, params)
                ELSE XorBits(lowmc_encrypt(privateKey, plaintext, params),
                             Tup([i \in 1..params.input_size |-> 1]))
  /\ message \in Messages
  /\ signature_len \in BufferLengths
  /\ signature = Tup([i \in 1..signature_len |-> BufferFill])
  /\ pc = "impl_sign"
  /\ t = 0
  /\ sig = NULL
  /\ iSeedsTree = NULL /\ treeCv = NULL
  /\ seeds = NULL /\ tapes = NULL /\ C = NULL /\ inputs = NULL /\ msgs = NULL
  /\ Ch = NULL /\ Cv = NULL
  /\ ret = 0
  /\ challengeC = NULL /\ challengeP = NULL
  /\ signRet = NULL /\ verifyRet = NULL
  /\ signed = NULL
  /\ simRets = NULL
  /\ deser = NULL
  /\ checks = NoChecks
  /\ auxGates = NULL
  /\ mzd = NULL
  /\ fn = NULL

\* a mutation of NextRound: the loop body runs for round 0 only
NextRound_once(here, after) == t' = 0 /\ pc' = after

\* the loop index after one more iteration, and where the code is then
NextRound(here, after) ==
  IF t + 1 < params.num_rounds
  THEN /\ t' = t + 1 /\ pc' = here
  ELSE /\ t' = 0 /\ pc' = after

(***************************************************************************)
(* impl_sign_picnic2 / sign_picnic2                                        *)
(***************************************************************************)
\* allocateSignature2; computeSaltAndRootSeed; the tree of initial seeds
SignStart ==
  /\ pc = "impl_sign"
  /\ \E saltAndRoot \in {computeSaltAndRootSeed(params.seed_size + SALT_SIZE,
                           privateKey, pubKey, plaintext, message, params)} :
       /\ sig' = [allocateSignature2(params) EXCEPT
                    !.salt = ReadAt(saltAndRoot, 0, SALT_SIZE)]
       /\ iSeedsTree' = generateSeeds(params.num_rounds,
                          ReadAt(saltAndRoot, SALT_SIZE, params.seed_size),
                          ReadAt(saltAndRoot, 0, SALT_SIZE), 0, params)
  /\ seeds' = NullRounds(params) /\ tapes' = NullRounds(params)
  /\ C' = NullRounds(params) /\ inputs' = NullRounds(params)
  /\ msgs' = NullRounds(params) /\ Ch' = NullRounds(params)
  /\ Cv' = NullRounds(params) /\ auxGates' = NullRounds(params)
  /\ ret' = 0
  /\ t' = 0 /\ pc' = "sign_seeds"
  /\ UNCHANGED <<args, signature, signature_len, treeCv, challengeC, challengeP,
                 signRet, verifyRet, signed, simRets, mzd, fn, deser, checks>>

\* seeds[t] = generateSeeds(...); createRandomTapes(&tapes[t], ...)
SignSeeds ==
  /\ pc = "sign_seeds"
  /\ \E tree \in {generateSeeds(params.num_MPC_parties,
                                getLeaves(iSeedsTree)[t + 1], sig.salt, t, params)} :
       /\ seeds' = [seeds EXCEPT ![t + 1] = tree]
       /\ tapes' = [tapes EXCEPT ![t + 1] =
                      createRandomTapes(getLeaves(tree), sig.salt, t, params)]
  /\ NextRound("sign_seeds", "sign_aux")
  /\ UNCHANGED <<args, signature, signature_len, sig, iSeedsTree, C, inputs, msgs,
                 Ch, Cv, treeCv, ret, challengeC, challengeP, signRet, verifyRet,
                 signed, simRets, mzd, fn, deser, checks, auxGates>>

\* computeAuxTape(&tapes[t], params)
SignAux ==
  /\ pc = "sign_aux"
  /\ \E aux \in {computeAuxTape(tapes[t + 1], params)} :
       /\ tapes' = [tapes EXCEPT ![t + 1] = aux.tapes]
       /\ auxGates' = [auxGates EXCEPT ![t + 1] = aux.gates]
  /\ NextRound("sign_aux", "sign_commit")
  /\ UNCHANGED <<args, signature, signature_len, sig, iSeedsTree, seeds, C, inputs,
                 msgs, Ch, Cv, treeCv, ret, challengeC, challengeP, signRet,
                 verifyRet, signed, simRets, mzd, fn, deser, checks>>

\* C[t].hashes[j .. j + 3] for j = 0, 4, ...: commit_x4 on the parties' seeds
commitParties(tree, salt, round, p) ==
  Flatten(Tup([g \in 1..(p.num_MPC_parties \div 4) |->
     commit_x4(Tup([k \in 1..4 |-> getLeaf(tree, 4 * (g - 1) + k - 1)]),
               salt, round, 4 * (g - 1), p)]))

\* commit_x4 for every four parties, then the last party again with its aux
SignCommit ==
  /\ pc = "sign_commit"
  /\ LET last == params.num_MPC_parties - 1
     IN  \E auxBits \in {getAuxBits(tapes[t + 1], params)} :
           C' = [C EXCEPT ![t + 1] =
                   [commitParties(seeds[t + 1], sig.salt, t, params)
                      EXCEPT ![last + 1] =
                        commit(getLeaf(seeds[t + 1], last), auxBits, sig.salt, t,
                               last, params)]]
  /\ NextRound("sign_commit", "sign_online")
  /\ UNCHANGED <<args, signature, signature_len, sig, iSeedsTree, seeds, tapes,
                 inputs, msgs, Ch, Cv, treeCv, ret, challengeC, challengeP, signRet,
                 verifyRet, signed, simRets, mzd, fn, deser, checks, auxGates>>

\* the rounds of one signature in which the model lets the collaborator
\* report a failure of its own
MaxSimFailures == 1

\* what simulateOnline may hand back to sign_picnic2: the value computed, or,
\* by its contract (0 or non-zero), a failure
simulateOnlineReturns(computed, earlier) ==
  IF Cardinality({i \in 1..Len(earlier) : earlier[i] # 0}) < MaxSimFailures
  THEN {computed, -1}
  ELSE {computed}

\* a mutation of simulationFailed: a round that succeeds clears the failure
simulationFailed_lastRound(rv, r) == IF rv # 0 THEN -1 ELSE 0

\* if (rv != 0) { ret = -1; }
simulationFailed(rv, r) == IF rv # 0 THEN -1 ELSE r

\* tapesToWords; maskedKey = masks ^ privateKey; simulateOnline.  The word
\* count input_size / 4 is input_size / word_size in an instance whose word
\* is word_size bytes.
SignOnline ==
  /\ pc = "sign_online"
  /\ \E ms \in {tapesToWords(params.lowmc.n, tapes[t + 1])} :
     \E maskedKey \in {xor_word_array(reconstructShares(ms.shares), privateKey,
                                      params.input_size \div params.word_size,
                                      params)} :
     \E rv \in {simulateOnline(maskedKey, ms.shares, ms.tapes, allocateMsgs(params),
                               plaintext, pubKey, params)} :
       /\ inputs' = [inputs EXCEPT ![t + 1] = maskedKey]
       /\ tapes' = [tapes EXCEPT ![t + 1] = rv.tapes]
       /\ msgs' = [msgs EXCEPT ![t + 1] = rv.msgs]
       /\ \E reported \in simulateOnlineReturns(rv.ret, simRets) :
            /\ ret' = simulationFailed(reported, ret)
            /\ simRets' = Append(simRets, reported)
  /\ NextRound("sign_online", "sign_commit_hv")
  /\ UNCHANGED <<args, signature, signature_len, sig, iSeedsTree, seeds, C, Ch, Cv,
                 treeCv, challengeC, challengeP, signRet, verifyRet, signed, deser,
                 checks, auxGates, mzd, fn>>

\* commit_h(Ch.hashes[t], &C[t]); commit_v(Cv.hashes[t], inputs[t], &msgs[t])
SignCommitHV ==
  /\ pc = "sign_commit_hv"
  /\ Ch' = [Ch EXCEPT ![t + 1] = commit_h(C[t + 1], params)]
  /\ Cv' = [Cv EXCEPT ![t + 1] = commit_v(inputs[t + 1], msgs[t + 1], params)]
  /\ NextRound("sign_commit_hv", "sign_challenge")
  /\ UNCHANGED <<args, signature, signature_len, sig, iSeedsTree, seeds, tapes, C,
                 inputs, msgs, treeCv, ret, challengeC, challengeP, signRet,
                 verifyRet, signed, simRets, mzd, fn, deser, checks, auxGates>>

\* the Merkle tree over Cv, the challenge, cvInfo and iSeedInfo
SignChallenge ==
  /\ pc = "sign_challenge"
  /\ \E tree \in {buildMerkleTree(createTree(params.num_rounds, params.digest_size),
                                  Cv, sig.salt, params)} :
     \E ch \in {HCP(sig.challengeC, sig.challengeP, Ch, tree.nodes[1], sig.salt,
                    pubKey, plaintext, message, params)} :
     \E missingLeaves \in {getMissingLeavesList(ch.challengeC, params)} :
     \E cvInfo \in {openMerkleTree(tree, missingLeaves,
                                   params.num_rounds - params.num_opened_rounds)} :
     \E iSeedInfo \in {revealSeeds(iSeedsTree, ch.challengeC, params.num_opened_rounds,
                                   params.num_rounds * params.seed_size, params)} :
       /\ treeCv' = tree
       /\ sig' = [sig EXCEPT !.challengeC = ch.challengeC,
                             !.challengeP = ch.challengeP,
                             !.cvInfo = cvInfo, !.cvInfoLen = Len(cvInfo),
                             !.iSeedInfo = iSeedInfo, !.iSeedInfoLen = Len(iSeedInfo)]
  /\ t' = 0 /\ pc' = "sign_proofs"
  /\ UNCHANGED <<args, signature, signature_len, iSeedsTree, seeds, tapes, C, inputs,
                 msgs, Ch, Cv, ret, challengeC, challengeP, signRet, verifyRet,
                 signed, simRets, mzd, fn, deser, checks, auxGates>>

\* the proof of round t with the aux bits copied whoever is hidden
assembleProof_alwaysAux(s, round, roundSeeds, roundTapes, roundC, input, roundMsgs, p) ==
  LET P_index  == indexOf(s.challengeC, p.num_opened_rounds, round)
      hidden   == s.challengeP[P_index + 1]
      seedInfo == revealSeeds(roundSeeds, <<hidden>>, 1,
                              p.num_MPC_parties * p.seed_size, p)
      fresh    == allocateProof2(p)
  IN  [fresh EXCEPT
         !.unOpenedIndex = hidden,
         !.seedInfo      = seedInfo,
         !.seedInfoLen   = Len(seedInfo),
         !.aux           = getAuxBits(roundTapes, p),
         !.input         = ReadAt(input, 0, p.input_size),
         !.msgs          = ReadAt(roundMsgs.msgs[hidden + 1], 0,
                                  p.view_size + p.input_size),
         !.C             = ReadAt(roundC[hidden + 1], 0, p.digest_size)]

\* the proof of round t, when t is in challengeC
assembleProof(s, round, roundSeeds, roundTapes, roundC, input, roundMsgs, p) ==
  LET P_index  == indexOf(s.challengeC, p.num_opened_rounds, round)
      hidden   == s.challengeP[P_index + 1]
      seedInfo == revealSeeds(roundSeeds, <<hidden>>, 1,
                              p.num_MPC_parties * p.seed_size, p)
      last     == p.num_MPC_parties - 1
      fresh    == allocateProof2(p)
  IN  [fresh EXCEPT
         !.unOpenedIndex = hidden,
         !.seedInfo      = seedInfo,
         !.seedInfoLen   = Len(seedInfo),
         !.aux           = IF hidden # last THEN getAuxBits(roundTapes, p) ELSE @,
         !.input         = ReadAt(input, 0, p.input_size),
         !.msgs          = ReadAt(roundMsgs.msgs[hidden + 1], 0,
                                  p.view_size + p.input_size),
         !.C             = ReadAt(roundC[hidden + 1], 0, p.digest_size)]

SignProofs ==
  /\ pc = "sign_proofs"
  /\ IF contains(sig.challengeC, params.num_opened_rounds, t) = 1
     THEN \E proof \in {assembleProof(sig, t, seeds[t + 1], tapes[t + 1], C[t + 1],
                                      inputs[t + 1], msgs[t + 1], params)} :
            sig' = [sig EXCEPT !.proofs[t + 1] = proof]
     ELSE sig' = sig
  /\ NextRound("sign_proofs", "sign_return")
  /\ UNCHANGED <<args, signature, signature_len, iSeedsTree, seeds, tapes, C, inputs,
                 msgs, Ch, Cv, treeCv, ret, challengeC, challengeP, signRet,
                 verifyRet, signed, simRets, mzd, fn, deser, checks, auxGates>>

\* sign_picnic2 returns ret; impl_sign_picnic2 serializes when it is 0
ImplSignReturn ==
  /\ pc = "sign_return"
  /\ IF ret # EXIT_SUCCESS
     THEN /\ signRet' = -1
          /\ signed' = [sig |-> sig, ret |-> ret, message |-> message, bytes |-> NULL]
          /\ UNCHANGED <<signature, signature_len>>
     ELSE \E out \in {serializeSignature2(sig, signature, signature_len, params)} :
            /\ signature' = out.sigBytes
            /\ IF out.ret = -1
               THEN /\ signRet' = -1 /\ signature_len' = signature_len
                    /\ signed' = [sig |-> sig, ret |-> ret, message |-> message,
                                  bytes |-> NULL]
               ELSE /\ signRet' = 0 /\ signature_len' = out.ret
                    /\ signed' = [sig |-> sig, ret |-> ret, message |-> message,
                                  bytes |-> SubSeq(out.sigBytes, 1, out.ret)]
  /\ pc' = "signed" /\ t' = 0
  /\ UNCHANGED <<args, sig, iSeedsTree, seeds, tapes, C, inputs, msgs, Ch, Cv, treeCv,
                 ret, challengeC, challengeP, verifyRet, simRets, mzd, fn, deser, checks,
                 auxGates>>

(***************************************************************************)
(* What a verifier may be handed: the signer's bytes as they are, with one *)
(* bit flipped, cut short or lengthened.                                   *)
(***************************************************************************)
FlipBits == 0..7

FlipByte(b, bit) ==
  IF (b \div Pow2(bit)) % 2 = 1 THEN b - Pow2(bit) ELSE b + Pow2(bit)

\* the salt is the SALT_SIZE bytes after the two challenge lists
InSalt(i, p) ==
  i >= 4 * p.num_opened_rounds /\ i < 4 * p.num_opened_rounds + SALT_SIZE

\* every bit of every byte outside the salt, one bit of each byte of the salt
Tampers(len, p) ==
  {[kind |-> "none"]}
    \cup {fl \in {[kind |-> "flip", at |-> i, bit |-> b] :
                    i \in 0..(len - 1), b \in FlipBits} :
            InSalt(fl.at, p) => fl.bit = fl.at % 8}
    \cup {[kind |-> "resize", to |-> n] :
            n \in {0, 4 * p.num_opened_rounds + SALT_SIZE - 1,
                   4 * p.num_opened_rounds + SALT_SIZE, len - 1, len + 1}}

Tampered(bytes, tm) ==
  IF tm.kind = "flip"
  THEN [bytes EXCEPT ![tm.at + 1] = FlipByte(@, tm.bit)]
  ELSE IF tm.kind = "resize"
  THEN Tup([i \in 1..tm.to |-> IF i <= Len(bytes) THEN bytes[i] ELSE 0])
  ELSE bytes

(***************************************************************************)
(* impl_verify_picnic2 / verify_picnic2                                    *)
(***************************************************************************)
\* the locals of verify_picnic2 as allocated at its top
VerifyLocals ==
  /\ seeds' = NullRounds(params) /\ tapes' = NullRounds(params)
  /\ C' = NullRounds(params) /\ inputs' = NullRounds(params)
  /\ msgs' = Tup([i \in 1..params.num_rounds |-> allocateMsgs(params)])
  /\ Ch' = NullRounds(params) /\ Cv' = NullRounds(params)
  /\ auxGates' = NullRounds(params)
  /\ treeCv' = createTree(params.num_rounds, params.digest_size)
  /\ challengeC' = NULL /\ challengeP' = NULL
  /\ checks' = [NoChecks EXCEPT !.seeds = NullRounds(params),
                                !.sim = NullRounds(params)]

\* a mutation of deserializeFailed: only EXIT_FAILURE counts as a failure
deserializeFailed_exitFailureOnly(r) == r = EXIT_FAILURE

\* impl_verify_picnic2: if (ret != EXIT_SUCCESS) after deserializeSignature2
deserializeFailed(r) == r # EXIT_SUCCESS

\* allocateSignature2; deserializeSignature2; on failure return -1
ImplVerify ==
  /\ pc = "signed"
  /\ \E m \in Messages :
     \E tm \in (IF signRet = 0 THEN Tampers(signature_len, params)
                ELSE {[kind |-> "none"]}) :
     \E bytes \in {Tampered(SubSeq(signature, 1, signature_len), tm)} :
     \E d \in {deserializeSignature2(allocateSignature2(params), bytes, Len(bytes),
                                     params)} :
       /\ m = message \/ tm.kind = "none"
       /\ message' = m
       /\ signature' = bytes
       /\ signature_len' = Len(bytes)
       /\ deser' = d
       /\ sig' = d.sig
       /\ IF deserializeFailed(d.ret)
          THEN /\ verifyRet' = -1 /\ pc' = "verified"
               /\ UNCHANGED <<iSeedsTree, seeds, tapes, C, inputs, msgs, Ch, Cv, treeCv,
                              ret, challengeC, challengeP, checks, auxGates>>
          ELSE /\ verifyRet' = NULL /\ pc' = "verify_iseeds"
               /\ iSeedsTree' = createTree(params.num_rounds, params.seed_size)
               /\ ret' = 0
               /\ VerifyLocals
  /\ t' = 0
  /\ UNCHANGED <<params, privateKey, pubKey, plaintext, signRet, signed, simRets, mzd, fn>>

\* a signature2_t a caller of verify_picnic2 may build from the signer's: one
\* of its variable-length fields a byte shorter
DropLast(bytes) == SubSeq(bytes, 1, Len(bytes) - 1)

Shortened(s, field, p) ==
  IF field = "iSeedInfo"
  THEN [s EXCEPT !.iSeedInfo = DropLast(@), !.iSeedInfoLen = @ - 1]
  ELSE IF field = "cvInfo"
  THEN [s EXCEPT !.cvInfo = DropLast(@), !.cvInfoLen = @ - 1]
  ELSE IF field = "seedInfo"
  THEN LET round == CHOOSE r \in 0..(p.num_rounds - 1) :
                      /\ contains(s.challengeC, p.num_opened_rounds, r) = 1
                      /\ \A q \in 0..(r - 1) :
                           contains(s.challengeC, p.num_opened_rounds, q) = 0
       IN  [s EXCEPT !.proofs[round + 1].seedInfo = DropLast(@),
                     !.proofs[round + 1].seedInfoLen = @ - 1]
  ELSE s

\* verify_picnic2 called on a structure, without impl_verify_picnic2
CallVerify ==
  /\ pc = "signed"
  /\ \E field \in {"none", "iSeedInfo", "cvInfo", "seedInfo"} :
       sig' = Shortened(signed.sig, field, params)
  /\ deser' = NULL
  /\ verifyRet' = NULL
  /\ iSeedsTree' = createTree(params.num_rounds, params.seed_size)
  /\ ret' = 0
  /\ VerifyLocals
  /\ t' = 0 /\ pc' = "verify_iseeds"
  /\ UNCHANGED <<args, signature, signature_len, signRet, signed, simRets, mzd, fn>>

\* ret = reconstructSeeds(iSeedsTree, sig->challengeC, ...)
VerifyISeeds ==
  /\ pc = "verify_iseeds"
  /\ \E r \in {reconstructSeeds(iSeedsTree, sig.challengeC, params.num_opened_rounds,
                                sig.iSeedInfo, sig.iSeedInfoLen, sig.salt, 0, params)} :
       /\ iSeedsTree' = r.tree
       /\ checks' = [checks EXCEPT !.iSeeds = <<r.ret>>]
       /\ IF r.ret # 0
          THEN ret' = -1 /\ pc' = "verify_exit"
          ELSE ret' = r.ret /\ pc' = "verify_seeds"
  /\ t' = 0
  /\ UNCHANGED <<args, signature, signature_len, sig, seeds, tapes, C, inputs, msgs,
                 Ch, Cv, treeCv, challengeC, challengeP, signRet, verifyRet, signed, simRets, mzd, fn,
                 deser, auxGates>>

\* seeds[t]: expanded from iSeed[t], or reconstructed from the proof
VerifySeeds ==
  /\ pc = "verify_seeds"
  /\ IF contains(sig.challengeC, params.num_opened_rounds, t) = 0
     THEN /\ seeds' = [seeds EXCEPT ![t + 1] =
                         generateSeeds(params.num_MPC_parties, getLeaf(iSeedsTree, t),
                                       sig.salt, t, params)]
          /\ NextRound("verify_seeds", "verify_commit")
          /\ UNCHANGED <<ret, checks>>
     ELSE \E r \in {reconstructSeeds(
                      createTree(params.num_MPC_parties, params.seed_size),
                      <<HiddenParty(sig, t, params)>>, 1, sig.proofs[t + 1].seedInfo,
                      sig.proofs[t + 1].seedInfoLen, sig.salt, t, params)} :
            /\ seeds' = [seeds EXCEPT ![t + 1] = r.tree]
            /\ checks' = [checks EXCEPT !.seeds[t + 1] = <<r.ret>>]
            /\ IF r.ret # 0
               THEN ret' = -1 /\ pc' = "verify_exit" /\ t' = t
               ELSE ret' = r.ret /\ NextRound("verify_seeds", "verify_commit")
  /\ UNCHANGED <<args, signature, signature_len, sig, iSeedsTree, tapes, C, inputs,
                 msgs, Ch, Cv, treeCv, challengeC, challengeP, signRet, verifyRet,
                 signed, simRets, mzd, fn, deser, auxGates>>

\* C[t] of a round in challengeC: commit_x4 on every party's seed, the last
\* party again with the proof's aux unless it is the unopened one, then the
\* unopened party's commitment copied from the proof
openedCommitments(roundSeeds, proof, unopened, salt, round, p) ==
  LET last     == p.num_MPC_parties - 1
      x4       == commitParties(roundSeeds, salt, round, p)
      withLast == IF last # unopened
                  THEN [x4 EXCEPT ![last + 1] =
                          commit(getLeaf(roundSeeds, last), proof.aux, salt, round,
                                 last, p)]
                  ELSE x4
  IN  [withLast EXCEPT ![unopened + 1] = ReadAt(proof.C, 0, p.digest_size)]

\* createRandomTapes, then C[t]: from scratch for a round not in challengeC,
\* from the proof's aux and the unopened party's commitment for one in it
VerifyCommit ==
  /\ pc = "verify_commit"
  /\ LET last == params.num_MPC_parties - 1
     IN  \E fresh \in {createRandomTapes(getLeaves(seeds[t + 1]), sig.salt, t, params)} :
           IF contains(sig.challengeC, params.num_opened_rounds, t) = 0
           THEN \E aux \in {computeAuxTape(fresh, params)} :
                \E auxBits \in {getAuxBits(aux.tapes, params)} :
                  /\ tapes' = [tapes EXCEPT ![t + 1] = aux.tapes]
                  /\ auxGates' = [auxGates EXCEPT ![t + 1] = aux.gates]
                  /\ C' = [C EXCEPT ![t + 1] =
                             [commitParties(seeds[t + 1], sig.salt, t, params)
                                EXCEPT ![last + 1] =
                                  commit(getLeaf(seeds[t + 1], last), auxBits,
                                         sig.salt, t, last, params)]]
           ELSE \E unopened \in {HiddenParty(sig, t, params)} :
                  /\ tapes' = [tapes EXCEPT ![t + 1] = fresh]
                  /\ auxGates' = auxGates
                  /\ C' = [C EXCEPT ![t + 1] =
                             openedCommitments(seeds[t + 1], sig.proofs[t + 1],
                                               unopened, sig.salt, t, params)]
  /\ NextRound("verify_commit", "verify_commit_h")
  /\ UNCHANGED <<args, signature, signature_len, sig, iSeedsTree, seeds, inputs, msgs,
                 Ch, Cv, treeCv, ret, challengeC, challengeP, signRet, verifyRet,
                 signed, simRets, mzd, fn, deser, checks>>

\* commit_h(Ch.hashes[t], &C[t], params)
VerifyCommitH ==
  /\ pc = "verify_commit_h"
  /\ Ch' = [Ch EXCEPT ![t + 1] = commit_h(C[t + 1], params)]
  /\ NextRound("verify_commit_h", "verify_online")
  /\ UNCHANGED <<args, signature, signature_len, sig, iSeedsTree, seeds, tapes, C,
                 inputs, msgs, Cv, treeCv, ret, challengeC, challengeP, signRet,
                 verifyRet, signed, simRets, mzd, fn, deser, checks, auxGates>>

\* a mutation of openedTapes: the unopened party's tape is left as it is
openedTapes_noZero(roundTapes, proof, unopened, p) ==
  setAuxBits(roundTapes, proof.aux, p)

\* a mutation of openedTapes: the aux bits of the proof are not installed
openedTapes_noAux(roundTapes, proof, unopened, p) ==
  LET tapeLengthBytes == 2 * p.view_size + p.input_size
  IN  [roundTapes EXCEPT
         !.tape[unopened + 1] =
           Tup([i \in 1..Len(@) |-> IF i <= tapeLengthBytes THEN 0 ELSE @[i]])]

\* the tapes and msgs the online simulation of an opened round starts from
openedTapes(roundTapes, proof, unopened, p) ==
  LET tapeLengthBytes == 2 * p.view_size + p.input_size
  IN  [setAuxBits(roundTapes, proof.aux, p) EXCEPT
         !.tape[unopened + 1] =
           Tup([i \in 1..Len(@) |-> IF i <= tapeLengthBytes THEN 0 ELSE @[i]])]

openedMsgs(roundMsgs, proof, unopened, p) ==
  [roundMsgs EXCEPT
     !.msgs[unopened + 1] = WriteAt(@, 0, ReadAt(proof.msgs, 0,
                                                 p.view_size + p.input_size)),
     !.unopened = unopened]

\* an opened round: simulateOnline without the unopened party, then commit_v
VerifyOnline ==
  /\ pc = "verify_online"
  /\ IF contains(sig.challengeC, params.num_opened_rounds, t) = 1
     THEN \E unopened \in {HiddenParty(sig, t, params)} :
          \E ms \in {tapesToWords(params.lowmc.n,
                       openedTapes(tapes[t + 1], sig.proofs[t + 1], unopened, params))} :
          \E rv \in {simulateOnline(sig.proofs[t + 1].input, ms.shares, ms.tapes,
                       openedMsgs(msgs[t + 1], sig.proofs[t + 1], unopened, params),
                       plaintext, pubKey, params)} :
            /\ tapes' = [tapes EXCEPT ![t + 1] = rv.tapes]
            /\ msgs' = [msgs EXCEPT ![t + 1] = rv.msgs]
            /\ checks' = [checks EXCEPT !.sim[t + 1] = <<rv.ret>>]
            /\ IF rv.ret # 0
               THEN /\ ret' = -1 /\ pc' = "verify_exit" /\ t' = t
                    /\ Cv' = Cv
               ELSE /\ ret' = rv.ret
                    /\ Cv' = [Cv EXCEPT ![t + 1] =
                                commit_v(sig.proofs[t + 1].input, rv.msgs, params)]
                    /\ NextRound("verify_online", "verify_add_nodes")
     ELSE /\ Cv' = [Cv EXCEPT ![t + 1] = NULL]
          /\ NextRound("verify_online", "verify_add_nodes")
          /\ UNCHANGED <<tapes, msgs, checks, ret>>
  /\ UNCHANGED <<args, signature, signature_len, sig, iSeedsTree, seeds, C, inputs, Ch,
                 treeCv, challengeC, challengeP, signRet, verifyRet, signed, simRets, mzd, fn, deser,
                 auxGates>>

\* ret = addMerkleNodes(treeCv, missingLeaves, missingLeavesSize, cvInfo, cvInfoLen)
VerifyAddMerkleNodes ==
  /\ pc = "verify_add_nodes"
  /\ \E r \in {addMerkleNodes(treeCv, getMissingLeavesList(sig.challengeC, params),
                              params.num_rounds - params.num_opened_rounds,
                              sig.cvInfo, sig.cvInfoLen)} :
       /\ treeCv' = r.tree
       /\ checks' = [checks EXCEPT !.addNodes = <<r.ret>>]
       /\ IF r.ret # 0
          THEN ret' = -1 /\ pc' = "verify_exit"
          ELSE ret' = r.ret /\ pc' = "verify_merkle"
  /\ UNCHANGED <<args, signature, signature_len, t, sig, iSeedsTree, seeds, tapes, C,
                 inputs, msgs, Ch, Cv, challengeC, challengeP, signRet, verifyRet,
                 signed, simRets, mzd, fn, deser, auxGates>>

\* ret = verifyMerkleTree(treeCv, Cv.hashes, sig->salt, params)
VerifyMerkleTree ==
  /\ pc = "verify_merkle"
  /\ \E r \in {verifyMerkleTree(treeCv, Cv, sig.salt, params)} :
       /\ treeCv' = r.tree
       /\ checks' = [checks EXCEPT !.merkle = <<r.ret>>]
       /\ IF r.ret # 0
          THEN ret' = -1 /\ pc' = "verify_exit"
          ELSE ret' = r.ret /\ pc' = "verify_challenge"
  /\ UNCHANGED <<args, signature, signature_len, t, sig, iSeedsTree, seeds, tapes, C,
                 inputs, msgs, Ch, Cv, challengeC, challengeP, signRet, verifyRet,
                 signed, simRets, mzd, fn, deser, auxGates>>

\* memcmp of a list of uint16_t with another over their first len entries
memcmp16(a, b, len) ==
  IF \A i \in 1..len : a[i] = b[i] THEN 0 ELSE 1

\* the comparison leaving challengeP out
challengeDiffers_onlyC(sigC, sigP, recC, recP, p) ==
  memcmp16(sigC, recC, p.num_opened_rounds) # 0

\* the comparison of the challenge in the signature with the recomputed one
challengeDiffers(sigC, sigP, recC, recP, p) ==
  \/ memcmp16(sigC, recC, p.num_opened_rounds) # 0
  \/ memcmp16(sigP, recP, p.num_opened_rounds) # 0

\* HCP into the lists malloc left with arbitrary contents, then the comparison
VerifyChallenge ==
  /\ pc = "verify_challenge"
  /\ \E junk \in {0, 65535} :
     \E ch \in {HCP(Tup([i \in 1..params.num_opened_rounds |-> junk]),
                    Tup([i \in 1..params.num_opened_rounds |-> junk]),
                    Ch, treeCv.nodes[1], sig.salt, pubKey, plaintext, message,
                    params)} :
       /\ challengeC' = ch.challengeC
       /\ challengeP' = ch.challengeP
       /\ IF challengeDiffers(sig.challengeC, sig.challengeP, ch.challengeC,
                              ch.challengeP, params)
          THEN /\ ret' = -1
               /\ checks' = [checks EXCEPT !.challenge = <<FALSE>>]
          ELSE /\ ret' = EXIT_SUCCESS
               /\ checks' = [checks EXCEPT !.challenge = <<TRUE>>]
  /\ pc' = "verify_exit"
  /\ UNCHANGED <<args, signature, signature_len, t, sig, iSeedsTree, seeds, tapes, C,
                 inputs, msgs, Ch, Cv, treeCv, signRet, verifyRet, signed, simRets, mzd, fn, deser,
                 auxGates>>

\* freeRandomTape(&tapes[t]) at Exit: tapes is malloc'd and a round's entry is
\* filled by createRandomTapes only, so releasing an entry that was never
\* created reads pointers malloc left there: the call faults or comes back
freeRandomTapes(tps) ==
  IF \E i \in 1..Len(tps) : tps[i] = NULL THEN {"returns", "faults"} ELSE {"returns"}

\* Exit: the cleanup, then verify_picnic2 returns ret; impl_verify_picnic2
\* returns 0 or -1
VerifyExit ==
  /\ pc = "verify_exit"
  /\ \E outcome \in freeRandomTapes(tapes) :
       IF outcome = "returns"
       THEN /\ verifyRet' = IF deser = NULL THEN ret
                            ELSE IF ret # EXIT_SUCCESS THEN -1 ELSE 0
            /\ pc' = "verified"
       ELSE /\ verifyRet' = NULL
            /\ pc' = "fault"
  /\ UNCHANGED <<args, signature, signature_len, t, sig, iSeedsTree, seeds, tapes, C,
                 inputs, msgs, Ch, Cv, treeCv, ret, challengeC, challengeP, signRet,
                 signed, simRets, mzd, fn, deser, checks, auxGates>>

Next ==
  \/ SignStart
  \/ SignSeeds
  \/ SignAux
  \/ SignCommit
  \/ SignOnline
  \/ SignCommitHV
  \/ SignChallenge
  \/ SignProofs
  \/ ImplSignReturn
  \/ ImplVerify
  \/ CallVerify
  \/ VerifyISeeds
  \/ VerifySeeds
  \/ VerifyCommit
  \/ VerifyCommitH
  \/ VerifyOnline
  \/ VerifyAddMerkleNodes
  \/ VerifyMerkleTree
  \/ VerifyChallenge
  \/ VerifyExit

Spec == Init /\ [][Next]_vars

(***************************************************************************)
(* The signature format as documented, computed from the raw bytes: the    *)
(* properties below compare the serializer and the deserializer with it.   *)
(***************************************************************************)
U16At(bytes, off) == bytes[off + 1] + 256 * bytes[off + 2]

HeaderLen(p) == 4 * p.num_opened_rounds + SALT_SIZE

FormatC(bytes, p) == Tup([i \in 1..p.num_opened_rounds |-> U16At(bytes, 2 * (i - 1))])

FormatP(bytes, p) ==
  Tup([i \in 1..p.num_opened_rounds |->
         U16At(bytes, 2 * p.num_opened_rounds + 2 * (i - 1))])

GoodChallenge(c, pl, p) ==
  /\ \A i \in 1..p.num_opened_rounds :
       /\ c[i] \in 0..(p.num_rounds - 1)
       /\ pl[i] \in 0..(p.num_MPC_parties - 1)
  /\ \A i, j \in 1..p.num_opened_rounds : i # j => c[i] # c[j]

Opened(c, r) == \E i \in 1..Len(c) : c[i] = r

HiddenIn(c, pl, r) == pl[CHOOSE i \in 1..Len(c) : c[i] = r]

FormatSeedInfoLen(p) == ceil_log2(p.num_MPC_parties) * p.seed_size

FormatProofLen(hidden, p) ==
  FormatSeedInfoLen(p)
    + (IF hidden # p.num_MPC_parties - 1 THEN p.view_size ELSE 0)
    + p.input_size + (p.input_size + p.view_size) + p.digest_size

FormatProofsAt(c, p) ==
  HeaderLen(p)
    + revealSeedsSize(p.num_rounds, c, p.num_opened_rounds, p)
    + openMerkleTreeSize(p.num_rounds, getMissingLeavesList(c, p),
                         p.num_rounds - p.num_opened_rounds, p)

\* where the proof of round r starts; r = num_rounds gives the whole length
FormatProofAt(c, pl, r, p) ==
  FormatProofsAt(c, p)
    + SumSeq(Tup([q \in 1..r |->
               IF Opened(c, q - 1)
               THEN FormatProofLen(HiddenIn(c, pl, q - 1), p) ELSE 0]))

FormatLen(c, pl, p) == FormatProofAt(c, pl, p.num_rounds, p)

\* the bytes are a header with a good challenge followed by the right number
\* of bytes
WellFormed(bytes, p) ==
  /\ Len(bytes) >= HeaderLen(p)
  /\ GoodChallenge(FormatC(bytes, p), FormatP(bytes, p), p)
  /\ Len(bytes) = FormatLen(FormatC(bytes, p), FormatP(bytes, p), p)

\* the fields of round r's proof in well-formed bytes
FormatProof(bytes, r, p) ==
  LET c      == FormatC(bytes, p)
      pl     == FormatP(bytes, p)
      hidden == HiddenIn(c, pl, r)
      hasAux == hidden # p.num_MPC_parties - 1
      at     == FormatProofAt(c, pl, r, p)
      auxAt  == at + FormatSeedInfoLen(p)
      inAt   == auxAt + (IF hasAux THEN p.view_size ELSE 0)
      msgsAt == inAt + p.input_size
      CAt    == msgsAt + p.input_size + p.view_size
  IN  [hidden   |-> hidden,
       hasAux   |-> hasAux,
       seedInfo |-> SubSeq(bytes, at + 1, auxAt),
       aux      |-> IF hasAux THEN SubSeq(bytes, auxAt + 1, inAt) ELSE NULL,
       input    |-> SubSeq(bytes, inAt + 1, msgsAt),
       msgs     |-> SubSeq(bytes, msgsAt + 1, CAt),
       C        |-> SubSeq(bytes, CAt + 1, CAt + p.digest_size)]

\* bit i of a byte string, the first bit being the top bit of the first byte
BitOf(bytes, i) == (bytes[(i \div 8) + 1] \div Pow2(7 - (i % 8))) % 2

\* deserializeSignature2 has just run on the bytes in signature
Deserialized == deser # NULL /\ pc \in {"verify_iseeds", "verified"}

\* the verifier was handed the signer's bytes and the signed message
Untampered ==
  /\ deser # NULL
  /\ signed.bytes # NULL
  /\ signature = signed.bytes
  /\ message = signed.message

Rounds == 0..(params.num_rounds - 1)

(***************************************************************************)
(* Properties                                                              *)
(***************************************************************************)
\* C1: impl_verify_picnic2, handed the bytes impl_sign_picnic2 wrote together
\* with the same public key, plaintext and message, returns 0; the signer
\* wrote bytes only when every round's online simulation succeeded.
C1_SignThenVerify ==
  (pc = "verified" /\ Untampered) => verifyRet = 0

C1_Witness ==
  /\ pc = "verified" /\ Untampered /\ verifyRet = 0
  /\ signed.ret = 0

\* every step of verify_picnic2 that ran reported success, and every step ran
StepsSucceeded ==
  /\ checks.iSeeds = <<0>>
  /\ \A r \in Rounds :
       Opened(sig.challengeC, r) =>
         checks.seeds[r + 1] = <<0>> /\ checks.sim[r + 1] = <<0>>
  /\ checks.addNodes = <<0>>
  /\ checks.merkle = <<0>>

\* the recomputed challenge equals the signature's, entry for entry
ChallengeEqual ==
  /\ challengeC # NULL
  /\ \A i \in 1..params.num_opened_rounds :
       /\ challengeC[i] = sig.challengeC[i]
       /\ challengeP[i] = sig.challengeP[i]

VerifyReturned == pc \in {"verify_exit", "verified"} /\ checks.iSeeds # NULL

\* C2: the value verify_picnic2 returns is 0 exactly when the iSeed tree
\* reconstruction, every opened round's seed reconstruction and online
\* simulation, addMerkleNodes and verifyMerkleTree all succeeded and the
\* recomputed challengeC and challengeP equal the signature's entry for
\* entry; in every other case the value is -1.
C2_VerifyVerdict ==
  VerifyReturned =>
    /\ ret \in {0, -1}
    /\ ret = 0 <=> (StepsSucceeded /\ ChallengeEqual)

\* every step succeeded, challengeC came out the same, challengeP did not
C2_Witness ==
  /\ VerifyReturned /\ ret = -1 /\ StepsSucceeded
  /\ challengeC = sig.challengeC /\ challengeP # sig.challengeP

\* some opened round of well-formed bytes has a 1 among the padding bits of
\* its aux (when aux is there) or of its msgs
PaddingSet(bytes, p) ==
  \E r \in 0..(p.num_rounds - 1) :
    /\ Opened(FormatC(bytes, p), r)
    /\ LET proof    == FormatProof(bytes, r, p)
           andBits  == 3 * p.lowmc.r * p.lowmc.m
       IN  \/ /\ proof.hasAux
              /\ \E i \in andBits..(8 * p.view_size - 1) : BitOf(proof.aux, i) = 1
           \/ \E i \in (p.lowmc.n + andBits)..(8 * (p.input_size + p.view_size) - 1) :
                BitOf(proof.msgs, i) = 1

\* C3: deserializeSignature2 returns non-zero, and impl_verify_picnic2 -1,
\* whenever some opened round carries a 1 in a bit of aux at index >= 3rm
\* (hidden party other than the last) or in a bit of msgs at index >= n + 3rm.
C3_PaddingBitsRejected ==
  (Deserialized /\ WellFormed(signature, params) /\ PaddingSet(signature, params)) =>
    /\ deser.ret # 0
    /\ pc = "verified" /\ verifyRet = -1

C3_Witness ==
  /\ Deserialized /\ WellFormed(signature, params) /\ PaddingSet(signature, params)
  /\ deser.ret = -1

\* C4: deserializeSignature2 returns non-zero whenever a challengeC entry is
\* >= num_rounds, two challengeC entries are equal or a challengeP entry is
\* >= num_MPC_parties, and it does so before any size is computed from
\* challengeC and before any proof is allocated.
C4_ChallengeChecked ==
  (/\ Deserialized
   /\ Len(signature) >= HeaderLen(params)
   /\ ~GoodChallenge(FormatC(signature, params), FormatP(signature, params), params)) =>
    /\ deser.ret # 0
    /\ ~deser.sizesComputed
    /\ deser.allocated = {}
    /\ deser.sig.iSeedInfoLen = 0 /\ deser.sig.cvInfoLen = 0
    /\ \A r \in Rounds : deser.sig.proofs[r + 1] = NULL

\* two equal entries in challengeC, each of them in range
C4_Witness ==
  /\ Deserialized
  /\ Len(signature) >= HeaderLen(params)
  /\ \E i, j \in 1..params.num_opened_rounds :
       /\ i # j
       /\ FormatC(signature, params)[i] = FormatC(signature, params)[j]
       /\ FormatC(signature, params)[i] < params.num_rounds
  /\ deser.ret = EXIT_FAILURE

\* C5: deserializeSignature2 returns non-zero for every input whose length is
\* not the one the format gives for its challenge (header, iSeedInfo, cvInfo
\* and per opened round seedInfo, aux iff the hidden party is not the last,
\* input, msgs, C), and reads no byte at an offset >= sigBytesLen.
C5_ExactLength ==
  Deserialized =>
    /\ deser.readEnd <= Len(signature)
    /\ Len(signature) < HeaderLen(params) => deser.ret # 0
    /\ (/\ Len(signature) >= HeaderLen(params)
        /\ GoodChallenge(FormatC(signature, params), FormatP(signature, params), params)
        /\ Len(signature) #
             FormatLen(FormatC(signature, params), FormatP(signature, params), params))
         => deser.ret # 0

\* one byte more than the format gives
C5_Witness ==
  /\ Deserialized
  /\ Len(signature) >= HeaderLen(params)
  /\ GoodChallenge(FormatC(signature, params), FormatP(signature, params), params)
  /\ Len(signature) =
       FormatLen(FormatC(signature, params), FormatP(signature, params), params) + 1
  /\ deser.ret = EXIT_FAILURE

\* two proofs agree in seedInfo, aux (when present), input, msgs and C
SameProof(a, b, hasAux) ==
  /\ a.seedInfo = b.seedInfo /\ a.seedInfoLen = b.seedInfoLen
  /\ hasAux => a.aux = b.aux
  /\ a.input = b.input
  /\ a.msgs = b.msgs
  /\ a.C = b.C

\* the deserializer ran on exactly the bytes the serializer wrote
RoundTrip == Deserialized /\ signed.bytes # NULL /\ signature = signed.bytes

\* C6: deserializing what serializeSignature2 wrote succeeds and gives back
\* the signature: challengeC, challengeP, salt, iSeedInfo and cvInfo with
\* their lengths, and per opened round seedInfo, aux (when present), input,
\* msgs and C.
C6_RoundTrip ==
  RoundTrip =>
    /\ deser.ret = 0
    /\ deser.sig.challengeC = signed.sig.challengeC
    /\ deser.sig.challengeP = signed.sig.challengeP
    /\ deser.sig.salt = signed.sig.salt
    /\ deser.sig.iSeedInfo = signed.sig.iSeedInfo
    /\ deser.sig.iSeedInfoLen = signed.sig.iSeedInfoLen
    /\ deser.sig.cvInfo = signed.sig.cvInfo
    /\ deser.sig.cvInfoLen = signed.sig.cvInfoLen
    /\ \A r \in Rounds :
         Opened(signed.sig.challengeC, r) =>
           SameProof(deser.sig.proofs[r + 1], signed.sig.proofs[r + 1],
                     HiddenIn(signed.sig.challengeC, signed.sig.challengeP, r)
                       # params.num_MPC_parties - 1)

\* a round trip of a signature with non-zero aux bits in some round
C6_Witness ==
  /\ RoundTrip /\ deser.ret = 0
  /\ \E r \in Rounds :
       /\ Opened(signed.sig.challengeC, r)
       /\ HiddenIn(signed.sig.challengeC, signed.sig.challengeP, r)
            # params.num_MPC_parties - 1
       /\ deser.sig.proofs[r + 1].aux # Zeros(params.view_size)
       /\ deser.sig.proofs[r + 1].aux = signed.sig.proofs[r + 1].aux

LE16(v) == <<v % 256, v \div 256>>

\* the bytes of a signature in the documented order
ExpectedBytes(s, p) ==
  Flatten(Tup([i \in 1..p.num_opened_rounds |-> LE16(s.challengeC[i])]))
    \o Flatten(Tup([i \in 1..p.num_opened_rounds |-> LE16(s.challengeP[i])]))
    \o s.salt \o s.iSeedInfo \o s.cvInfo
    \o Flatten(Tup([r \in 1..p.num_rounds |->
         IF Opened(s.challengeC, r - 1)
         THEN s.proofs[r].seedInfo
                \o (IF HiddenIn(s.challengeC, s.challengeP, r - 1)
                        # p.num_MPC_parties - 1
                    THEN s.proofs[r].aux ELSE <<>>)
                \o s.proofs[r].input \o s.proofs[r].msgs \o s.proofs[r].C
         ELSE <<>>]))

\* serializeSignature2 has run on the signer's structure and the buffer
Serialized == pc = "signed" /\ signed.ret = 0

\* C7: serializeSignature2 returns -1 and writes no byte when the buffer is
\* smaller than bytesRequired; otherwise it writes exactly bytesRequired
\* bytes - challengeC, challengeP, salt, iSeedInfo, cvInfo, then the opened
\* rounds' proofs in ascending order, each as seedInfo, aux (if present),
\* input, msgs, C - and returns bytesRequired.
C7_SerializedLayout ==
  Serialized =>
    LET expected == ExpectedBytes(signed.sig, params)
        capacity == Len(signature)
    IN  IF capacity < Len(expected)
        THEN /\ signRet = -1
             /\ \A i \in 1..capacity : signature[i] = BufferFill
        ELSE /\ signRet = 0
             /\ signature_len = Len(expected)
             /\ SubSeq(signature, 1, Len(expected)) = expected
             /\ \A i \in (Len(expected) + 1)..capacity : signature[i] = BufferFill

\* a buffer one byte short is refused and left as it was
C7_Witness ==
  /\ Serialized
  /\ Len(signature) = Len(ExpectedBytes(signed.sig, params)) - 1
  /\ signRet = -1
  /\ \A i \in 1..Len(signature) : signature[i] = BufferFill

\* the opened rounds of a challenge that hide the last party
HidingLast(c, pl, p) ==
  {r \in 0..(p.num_rounds - 1) :
     Opened(c, r) /\ HiddenIn(c, pl, r) = p.num_MPC_parties - 1}

\* the length of a signature all of whose opened rounds carry aux
LenWithAux(s, p) ==
  HeaderLen(p) + s.iSeedInfoLen + s.cvInfoLen
    + p.num_opened_rounds
        * (FormatSeedInfoLen(p) + p.view_size + p.input_size
             + (p.input_size + p.view_size) + p.digest_size)

\* C8: the aux bits are produced by the signer, written by the serializer and
\* expected by the deserializer for an opened round exactly when its hidden
\* party is not the last one; each opened round hiding the last party makes
\* the signature view_size bytes shorter.
C8_AuxIffNotLastParty ==
  /\ pc \in {"sign_return", "signed"} =>
       \A r \in Rounds :
         Opened(sig.challengeC, r) =>
           sig.proofs[r + 1].aux =
             IF HiddenIn(sig.challengeC, sig.challengeP, r) # params.num_MPC_parties - 1
             THEN getAuxBits(tapes[r + 1], params)
             ELSE Zeros(params.view_size)
  /\ (pc = "signed" /\ signed.bytes # NULL) =>
       Len(signed.bytes) =
         LenWithAux(signed.sig, params)
           - params.view_size
               * Cardinality(HidingLast(signed.sig.challengeC, signed.sig.challengeP,
                                        params))
  /\ (Deserialized /\ deser.ret = 0) =>
       \A r \in Rounds :
         Opened(deser.sig.challengeC, r) =>
           LET proof == FormatProof(signature, r, params)
           IN  /\ deser.sig.proofs[r + 1].aux =
                    IF proof.hasAux THEN proof.aux ELSE Zeros(params.view_size)
               /\ deser.sig.proofs[r + 1].input = proof.input

\* a signature with one opened round hiding the last party and one not
C8_Witness ==
  /\ pc = "signed" /\ signed.bytes # NULL
  /\ Cardinality(HidingLast(signed.sig.challengeC, signed.sig.challengeP, params)) = 1
  /\ Len(signed.bytes) = LenWithAux(signed.sig, params) - params.view_size
  /\ \E r \in HidingLast(signed.sig.challengeC, signed.sig.challengeP, params) :
       getAuxBits(tapes[r + 1], params) # Zeros(params.view_size)

\* a challenge as HCP has to leave it
ValidChallenge(c, pl, p) ==
  /\ Len(c) = p.num_opened_rounds
  /\ Len(pl) = p.num_opened_rounds
  /\ GoodChallenge(c, pl, p)

\* C9: when HCP returns, challengeC holds num_opened_rounds pairwise distinct
\* entries in [0, num_rounds) and challengeP num_opened_rounds entries in
\* [0, num_MPC_parties); nothing is written past index num_opened_rounds - 1.
C9_ChallengeLists ==
  /\ pc \in {"sign_proofs", "sign_return", "signed"} =>
       ValidChallenge(sig.challengeC, sig.challengeP, params)
  /\ (pc \in {"verify_exit", "verified"} /\ challengeC # NULL) =>
       ValidChallenge(challengeC, challengeP, params)

\* the verifier's HCP came out with another challenge than the signature's
C9_Witness ==
  /\ pc = "verify_exit" /\ challengeC # NULL
  /\ ValidChallenge(challengeC, challengeP, params)
  /\ challengeC # sig.challengeC

\* the XOR over all parties of their tape bit at a position
TapeParity(roundTapes, pos) ==
  SumSeq(Tup([j \in 1..roundTapes.nTapes |-> BitOf(roundTapes.tape[j], pos)])) % 2

\* C10: after computeAuxTape, for every AND gate k of a round the XOR over
\* all parties' tape bits at the gate's helper position n + 1 + 2k equals
\* mask_a AND mask_b, the arguments aux_mpc_AND was called with.
C10_AuxTapeHelper ==
  \A r \in 1..Len(auxGates) :
    auxGates[r] # NULL =>
      /\ Len(auxGates[r]) = 3 * params.lowmc.r * params.lowmc.m
      /\ \A k \in 0..(Len(auxGates[r]) - 1) :
           LET gate == auxGates[r][k + 1]
           IN  /\ gate.pos = params.lowmc.n + 1 + 2 * k
               /\ TapeParity(tapes[r], gate.pos) = gate.mask_a * gate.mask_b

\* a gate with both masks 1 whose helper bits of the other parties XOR to 0,
\* so the last party's bit had to be set
C10_Witness ==
  /\ pc = "sign_commit"
  /\ \E k \in 1..Len(auxGates[1]) :
       /\ auxGates[1][k].mask_a = 1 /\ auxGates[1][k].mask_b = 1
       /\ BitOf(tapes[1].tape[params.num_MPC_parties], auxGates[1][k].pos) = 1

\* C11: when simulateOnline handed back a non-zero value in some round of a
\* signature, whichever round it was and whatever the later rounds gave,
\* impl_sign_picnic2 returns -1, the caller's buffer holds what it held
\* before the call and *signature_len is what the caller passed.
C11_SimulationFailureAborts ==
  (pc = "signed" /\ \E i \in 1..Len(simRets) : simRets[i] # 0) =>
    /\ signRet = -1
    /\ signature = Tup([i \in 1..Len(signature) |-> BufferFill])
    /\ signature_len = Len(signature)
    /\ signature_len \in BufferLengths
    /\ signed.bytes = NULL

\* the first round failed, the later rounds simulated successfully
C11_Witness ==
  /\ pc = "signed" /\ signRet = -1
  /\ Len(simRets) = params.num_rounds
  /\ simRets[1] # 0
  /\ \A i \in 2..Len(simRets) : simRets[i] = 0

\* impl_verify_picnic2 has been entered (deserializeSignature2 has run)
ImplVerifyEntered == deser # NULL

\* C12: impl_verify_picnic2 returns -1 whenever deserializeSignature2 gave a
\* non-zero value (EXIT_FAILURE or -1), and then verify_picnic2 is not
\* called; it returns -1 whenever verify_picnic2 gave a non-zero value; it
\* returns 0 only when both gave 0; it returns nothing but 0 or -1.
C12_SingleVerdict ==
  ImplVerifyEntered =>
    /\ deser.ret # EXIT_SUCCESS =>
          /\ pc = "verified" /\ verifyRet = -1
          /\ checks.iSeeds = NULL /\ challengeC = NULL
    /\ pc # "fault"
    /\ pc = "verified" =>
          /\ verifyRet \in {0, -1}
          /\ verifyRet = 0 <=> (deser.ret = EXIT_SUCCESS /\ ret = EXIT_SUCCESS)
          /\ (deser.ret = EXIT_SUCCESS /\ ret # EXIT_SUCCESS) => verifyRet = -1

\* the deserializer gave -1 (a padding bit), not EXIT_FAILURE
C12_Witness ==
  /\ ImplVerifyEntered /\ pc = "verified"
  /\ deser.ret = -1 /\ deser.ret # EXIT_FAILURE
  /\ verifyRet = -1 /\ checks.iSeeds = NULL

(***************************************************************************)
(* The binary matrix kernel of mzd_additional.c.                           *)
(*                                                                         *)
(* A word is a tuple of WordBits bits, bit 0 (the least significant)       *)
(* first; the memory of an mzd_local_t is a tuple of nrows * rowstride     *)
(* words, row after row, as FIRST_ROW / ROW address it.  The word is       *)
(* scaled from 64 bits to WordBits bits; the state widths stay 2, 3 and 4  *)
(* words, a 128-bit register stays two words and a 256-bit register four,  *)
(* so the padding word of the three-word rows, the split accumulators and  *)
(* the folds are those of the code.                                        *)
(***************************************************************************)
WordBits == 8

\* sizeof(__m128i) / sizeof(word), and the same of uint64x2_t
Words128 == 2

\* sizeof(__m256i) / sizeof(word)
Words256 == 4

\* the word whose bits all equal b: 0, or -(idx & 1) for a set bit
MaskWord(b) == Tup([i \in 1..WordBits |-> b])

\* a & b on words
WordAnd(a, b) == Tup([i \in 1..WordBits |-> a[i] * b[i]])

\* 128 / (8 * sizeof(word))
align_bound == Words128

calculate_rowstride(width) ==
  IF width > align_bound
  THEN ((width + Words256 - 1) \div Words256) * Words256
  ELSE ((width + Words128 - 1) \div Words128) * Words128

calculate_width(c) == (c + WordBits - 1) \div WordBits

\* mzd_local_init_ex(r, c, clear): the header and a buffer of r * rowstride
\* words; without clear the buffer holds what the allocator left, here `junk`
mzd_local_init_ex(r, c, clear, junk) ==
  [nrows |-> r, ncols |-> c, width |-> calculate_width(c),
   rowstride |-> calculate_rowstride(calculate_width(c)),
   mem |-> Tup([i \in 1..(r * calculate_rowstride(calculate_width(c))) |->
                 IF clear THEN MaskWord(0) ELSE junk])]

\* ROW(M, r): the index in mem of the first word of row r
ROW(M, r) == r * M.rowstride

\* the words of M from word offset off on, len of them (a pointer and a count)
Region(M, off, len) == SubSeq(M.mem, off + 1, off + len)

\* M with the len words at word offset off replaced by ws
WithRegion(M, off, ws) ==
  [M EXCEPT !.mem = Tup([i \in 1..Len(M.mem) |->
     IF i > off /\ i <= off + Len(ws) THEN ws[i - off] ELSE M.mem[i]])]

\* element [i, j] of M
mzd_bit(M, i, j) == M.mem[ROW(M, i) + (j \div WordBits) + 1][(j % WordBits) + 1]

\* mm128_xor_region / mm256_xor_region / the NEON veorq_u64 loop on registers,
\* and `*resptr++ = *firstptr++ ^ *secondptr++` on words: a ^ b, word by word
xor_region(a, b) == Tup([i \in 1..Len(a) |-> XorBits(a[i], b[i])])

\* mm128_xor_mask_region / mm256_xor_mask_region: dst ^ (src & mask)
xor_mask_region(dst, src, mask) ==
  Tup([i \in 1..Len(dst) |-> XorBits(dst[i], WordAnd(src[i], mask[i]))])

(***************************************************************************)
(* Operands.  Bit [r, j] of an operand is drawn from its seed by           *)
(* PatternBit; the words of a row past its width (the padding of a         *)
(* three-word row) hold `pad` in every bit, because nothing in the kernel  *)
(* reads them as data and an uncleared allocation leaves them arbitrary.   *)
(***************************************************************************)
MaxSeed == 2

PatternBit(seed, r, j) ==
  LET x == (7 + 13 * r + 29 * j + 41 * seed + 3 * r * j) % 251
  IN ((((x * x) % 251) * x) % 251) % 2

\* an r x c operand whose columns j >= keep of every word are 0
Operand(seed, r, c, keep, pad) ==
  [mzd_local_init_ex(r, c, FALSE, MaskWord(pad)) EXCEPT !.mem =
     Tup([i \in 1..(r * calculate_rowstride(calculate_width(c))) |->
       IF (i - 1) % calculate_rowstride(calculate_width(c)) < calculate_width(c)
       THEN Tup([b \in 1..WordBits |->
              IF b - 1 < keep
              THEN PatternBit(seed, (i - 1) \div calculate_rowstride(calculate_width(c)),
                              ((i - 1) % calculate_rowstride(calculate_width(c))) * WordBits
                                + b - 1)
              ELSE 0])
       ELSE MaskWord(pad)])]

\* the state widths, in words: 128, 192 and 256 bits
Widths == {2, 3, 4}

(***************************************************************************)
(* mzd_xor_*                                                               *)
(***************************************************************************)
\* the loop left after its first step
mzd_xor_loop_oneStep(res, first, second, off, width, step) ==
  WithRegion(res, off, xor_region(Region(first, off, step), Region(second, off, step)))

\* the loop of mzd_xor_uint64 (step 1 over first->width) and of mzd_xor_sse,
\* mzd_xor_avx, mzd_xor_neon (one register a step over first->rowstride):
\* `do { *res++ = *first++ ^ *second++; width -= step; } while (width)`
RECURSIVE mzd_xor_loop(_, _, _, _, _, _)
mzd_xor_loop(res, first, second, off, width, step) ==
  IF width <= 0 THEN res
  ELSE mzd_xor_loop(
         WithRegion(res, off, xor_region(Region(first, off, step),
                                         Region(second, off, step))),
         first, second, off + step, width - step, step)

\* the routines a state width is served by
mzd_xor_variants(width) ==
  IF width = 2
  THEN {"uint64", "sse", "sse_128", "avx_128", "neon", "neon_128"}
  ELSE {"uint64", "sse", "sse_256", "avx", "avx_256", "neon", "neon_256"}

mzd_xor(variant, res, first, second) ==
  CASE variant = "uint64" -> mzd_xor_loop(res, first, second, 0, first.width, 1)
    [] variant \in {"sse", "neon"} ->
         mzd_xor_loop(res, first, second, 0, first.rowstride, Words128)
    [] variant = "avx" ->
         mzd_xor_loop(res, first, second, 0, first.rowstride, Words256)
    [] variant \in {"sse_128", "avx_128", "neon_128"} ->
         WithRegion(res, 0, xor_region(Region(first, 0, Words128),
                                       Region(second, 0, Words128)))
    [] variant \in {"sse_256", "neon_256"} ->
         WithRegion(
           WithRegion(res, 0, xor_region(Region(first, 0, Words128),
                                         Region(second, 0, Words128))),
           Words128, xor_region(Region(first, Words128, Words128),
                                Region(second, Words128, Words128)))
    [] variant = "avx_256" ->
         WithRegion(res, 0, xor_region(Region(first, 0, Words256),
                                       Region(second, 0, Words256)))

(***************************************************************************)
(* mzd_addmul_v_* and mzd_mul_v_*                                          *)
(***************************************************************************)
\* idx >> n on a word
ShiftRight(idx, n) ==
  Tup([i \in 1..WordBits |-> IF i + n <= WordBits THEN idx[i + n] ELSE 0])

\* mzd_local_clear(c): memset of nrows * rowstride words
mzd_local_clear(c) == [c EXCEPT !.mem = Tup([i \in 1..Len(c.mem) |-> MaskWord(0)])]

\* for each word of v, for each of its bits from bit 0 up: mask = -(idx & 1),
\* cptr[j] ^= Aptr[j] & mask for j < A->width, then idx >>= 1, Aptr += rowstride
mzd_addmul_v_uint64(c, v, A) ==
  LET RECURSIVE loop(_, _, _, _, _)
      loop(w, i, idx, Aoff, cptr) ==
        IF w = 0 THEN cptr
        ELSE IF i = 0
        THEN loop(w - 1, WordBits,
                  IF w > 1 THEN v.mem[v.width - w + 2] ELSE MaskWord(0), Aoff, cptr)
        ELSE Bind(<<ShiftRight(idx, 1),
                    xor_mask_region(cptr, Region(A, Aoff, A.width),
                                    [j \in 1..A.width |-> MaskWord(idx[1])])>>,
                  LAMBDA nx : loop(w, i - 1, nx[1], Aoff + A.rowstride, nx[2]))
  IN IF v.width = 0 THEN c
     ELSE WithRegion(c, 0, loop(v.width, WordBits, v.mem[1], 0, Region(c, 0, A.width)))

\* mzd_mul_v_uint64 without its mzd_local_clear
mzd_mul_v_uint64_noClear(c, v, At) == mzd_addmul_v_uint64(c, v, At)

mzd_mul_v_uint64(c, v, At) == mzd_addmul_v_uint64(mzd_local_clear(c), v, At)

(***************************************************************************)
(* The SSE2, AVX2 and NEON routines all have one shape: accumulators cval  *)
(* (here one tuple of words), an outer loop over `outer` words of v, an    *)
(* inner loop that takes `bits` bits of idx a step, performs the step's    *)
(* operations and advances mAptr by `adv` words, and a final fold of       *)
(* slices of cval into the first words of c.  An operation XORs into cval  *)
(* at word `acc` the concatenation of its pieces; a piece is `len` words   *)
(* of A at mAptr + base, either ANDed with the mask of bit `at` of idx     *)
(* (sel = "bit": mm128_compute_mask, mm256_compute_mask, and for two       *)
(* pieces in one register mm256_compute_mask_2) or picked by the byte `at` *)
(* of idx (sel = "byte": mAptr + comb * stride).  A routine is the record  *)
(* of these numbers, read off its code.                                    *)
(***************************************************************************)
\* the bits of a byte of idx, scaled from 8
LookupBits == 2

\* (idx >> (8 * k)) & 0xff
comb_of(idx, k) ==
  SumRange([j \in 1..LookupBits |-> idx[k * LookupBits + j] * Pow2(j - 1)], 1, LookupBits)

kernel_piece(A, Aoff, idx, p) ==
  IF p.sel = "bit"
  THEN Tup([j \in 1..p.len |->
              WordAnd(A.mem[Aoff + p.base + j], MaskWord(idx[p.at + 1]))])
  ELSE Region(A, Aoff + p.base + comb_of(idx, p.at) * p.stride, p.len)

\* cval after the operations ops[n..] of one step
RECURSIVE kernel_ops(_, _, _, _, _, _)
kernel_ops(cval, A, Aoff, idx, ops, n) ==
  IF n > Len(ops) THEN cval
  ELSE LET val == Flatten(Tup([q \in 1..Len(ops[n].pieces) |->
                                 kernel_piece(A, Aoff, idx, ops[n].pieces[q])]))
       IN kernel_ops(
            Tup([j \in 1..Len(cval) |->
                   IF j > ops[n].acc /\ j <= ops[n].acc + Len(val)
                   THEN XorBits(cval[j], val[j - ops[n].acc]) ELSE cval[j]]),
            A, Aoff, idx, ops, n + 1)

\* the two nested loops: w words of v are left, i bits of idx are left
RECURSIVE kernel_loop(_, _, _, _, _, _, _, _)
kernel_loop(K, v, A, w, i, idx, Aoff, cval) ==
  IF w = 0 THEN cval
  ELSE IF i = 0
  THEN kernel_loop(K, v, A, w - 1, WordBits,
                   IF w > 1 THEN v.mem[K.outer - w + 2] ELSE MaskWord(0), Aoff, cval)
  ELSE Bind(<<ShiftRight(idx, K.bits), kernel_ops(cval, A, Aoff, idx, K.ops, 1)>>,
            LAMBDA nx : kernel_loop(K, v, A, w, i - K.bits, nx[1], Aoff + K.adv, nx[2]))

\* a slice of cval: len words from word `at`
RECURSIVE kernel_fold(_, _, _)
kernel_fold(cval, slices, n) ==
  IF n = Len(slices) THEN SubSeq(cval, slices[n].at + 1, slices[n].at + slices[n].len)
  ELSE xor_region(SubSeq(cval, slices[n].at + 1, slices[n].at + slices[n].len),
                  kernel_fold(cval, slices, n + 1))

\* the routine K on c, v, A.  cval starts from K.load words of c (none when
\* the routine sets cval to zero), then K.undef words that the code leaves
\* undefined (here `upper`), then zero words.
kernel_run(K, c, v, A, upper) ==
  WithRegion(c, 0,
    kernel_fold(
      kernel_loop(K, v, A, K.outer, WordBits, v.mem[1], 0,
                  Tup([j \in 1..K.cval |->
                         IF j <= K.load THEN c.mem[j]
                         ELSE IF j <= K.load + K.undef THEN upper
                         ELSE MaskWord(0)])),
      K.fold, 1))

\* a masked piece and an operation of one such piece
BitPiece(base, len, bit) == [sel |-> "bit", base |-> base, len |-> len, at |-> bit, stride |-> 0]

BitOp(acc, base, len, bit) == [acc |-> acc, pieces |-> <<BitPiece(base, len, bit)>>]

\* cval[a] = mm256_xor_mask(cval[a], mAptr[r], mm256_compute_mask_2(idx, bit)):
\* the low half of the register under bit, the high half under bit + 1
BitOp2(acc, base, bit) ==
  [acc |-> acc, pieces |-> <<BitPiece(base, Words128, bit),
                             BitPiece(base + Words128, Words128, bit + 1)>>]

\* the routines of mzd_mul_v / mzd_addmul_v; add is FALSE for mzd_mul_v_*
mzd_mul_v_kernel(variant, add, v, A) ==
  CASE variant \in {"sse", "neon", "avx"} ->
         \* in place on c, one bit a step, len = mrowstride registers
         [outer |-> v.width, bits |-> 1, adv |-> A.rowstride, cval |-> A.rowstride,
          load |-> IF add THEN A.rowstride ELSE 0, undef |-> 0,
          ops |-> <<BitOp(0, 0, A.rowstride, 0)>>,
          fold |-> <<[at |-> 0, len |-> A.rowstride]>>]
    [] variant \in {"sse_128", "neon_128"} ->
         [outer |-> 2, bits |-> 4, adv |-> 4 * Words128, cval |-> 2 * Words128,
          load |-> IF add THEN Words128 ELSE 0, undef |-> 0,
          ops |-> <<BitOp(0, 0, Words128, 0),
                    BitOp(Words128, Words128, Words128, 1),
                    BitOp(0, 2 * Words128, Words128, 2),
                    BitOp(Words128, 3 * Words128, Words128, 3)>>,
          fold |-> <<[at |-> 0, len |-> Words128], [at |-> Words128, len |-> Words128]>>]
    [] variant \in {"sse_192", "neon_192", "sse_256", "neon_256"} ->
         [outer |-> IF variant \in {"sse_192", "neon_192"} THEN 3 ELSE 4,
          bits |-> 2, adv |-> 4 * Words128, cval |-> 4 * Words128,
          load |-> IF add THEN 2 * Words128 ELSE 0, undef |-> 0,
          ops |-> <<BitOp(0, 0, 2 * Words128, 0),
                    BitOp(2 * Words128, 2 * Words128, 2 * Words128, 1)>>,
          fold |-> <<[at |-> 0, len |-> 2 * Words128],
                     [at |-> 2 * Words128, len |-> 2 * Words128]>>]
    [] variant = "avx_128" ->
         [outer |-> 2, bits |-> 8, adv |-> 4 * Words256, cval |-> 2 * Words256,
          load |-> IF add THEN Words128 ELSE 0,
          undef |-> IF add THEN Words256 - Words128 ELSE 0,
          ops |-> <<BitOp2(0, 0, 0), BitOp2(Words256, Words256, 2),
                    BitOp2(0, 2 * Words256, 4), BitOp2(Words256, 3 * Words256, 6)>>,
          fold |-> <<[at |-> 0, len |-> Words128], [at |-> Words128, len |-> Words128],
                     [at |-> Words256, len |-> Words128],
                     [at |-> Words256 + Words128, len |-> Words128]>>]
    [] variant \in {"avx_192", "avx_256"} ->
         [outer |-> IF variant = "avx_192" THEN 3 ELSE 4,
          bits |-> 4, adv |-> 4 * Words256, cval |-> 2 * Words256,
          load |-> IF add THEN Words256 ELSE 0, undef |-> 0,
          ops |-> <<BitOp(0, 0, Words256, 0), BitOp(Words256, Words256, Words256, 1),
                    BitOp(0, 2 * Words256, Words256, 2),
                    BitOp(Words256, 3 * Words256, Words256, 3)>>,
          fold |-> <<[at |-> 0, len |-> Words256], [at |-> Words256, len |-> Words256]>>]

(***************************************************************************)
(* The kernel as a state machine: a call of one routine family on operands *)
(* drawn at the start.  mzd.job holds the operands, mzd.call the family    *)
(* that ran, mzd.out the memory each routine of the family left in its     *)
(* destination, mzd.upper the word found in the bits the code leaves      *)
(* undefined, and mzd.lookup the matrix mzd_precompute_matrix_lookup made. *)
(***************************************************************************)
\* how many low bits of every word of v can be set: none, one byte's,
\* all but one byte's, all
VKeeps == {0, LookupBits, WordBits - LookupBits, WordBits}

\* the rows of the operands of mzd_xor
MaxXorRows == 2

XorJobs ==
  {[fam |-> "xor",
    first |-> Operand(s1, r, w * WordBits, WordBits, pad),
    second |-> Operand(s2, r, w * WordBits, WordBits, pad),
    res |-> Operand(s1 + s2 + 1, r, w * WordBits, WordBits, 1 - pad)] :
     s1 \in 0..MaxSeed, s2 \in 0..MaxSeed, r \in 1..MaxXorRows, w \in Widths,
     pad \in {0, 1}}

MulJobs ==
  {[fam |-> "mul",
    v |-> Operand(sv, 1, w * WordBits, keep, pad),
    A |-> Operand(sa, w * WordBits, w * WordBits, WordBits, pad),
    c |-> Operand(sa + sv + 1, 1, w * WordBits, WordBits, 1 - pad)] :
     sv \in 0..MaxSeed, sa \in 0..MaxSeed, keep \in VKeeps, w \in Widths,
     pad \in {0, 1}}

picnicVars == <<params, privateKey, pubKey, plaintext, message, signature,
                signature_len, pc, t, sig, iSeedsTree, seeds, tapes, C, inputs,
                msgs, Ch, Cv, treeCv, ret, challengeC, challengeP, signRet,
                verifyRet, signed, simRets, deser, checks, auxGates>>

\* the routines a state width is served by, for mzd_mul_v and mzd_addmul_v
mzd_mul_v_variants(width) ==
  CASE width = 2 -> {"sse", "sse_128", "avx_128", "neon", "neon_128"}
    [] width = 3 -> {"sse", "sse_192", "avx", "avx_192", "neon", "neon_192"}
    [] width = 4 -> {"sse", "sse_256", "avx", "avx_256", "neon", "neon_256"}

\* what the bits of an undefined register half can hold
UndefinedWords == {MaskWord(0), MaskWord(1)}

MzdXor ==
  /\ mzd.call = "none" /\ mzd.job.fam = "xor"
  /\ mzd' = [mzd EXCEPT !.call = "xor",
       !.out = [variant \in mzd_xor_variants(mzd.job.first.width) |->
                  mzd_xor(variant, mzd.job.res, mzd.job.first, mzd.job.second).mem]]
  /\ UNCHANGED <<picnicVars, fn>>

MzdMulV ==
  /\ mzd.call = "none" /\ mzd.job.fam = "mul"
  /\ mzd' = [mzd EXCEPT !.call = "mul_v",
       !.out = [variant \in mzd_mul_v_variants(mzd.job.v.width) \cup {"uint64"} |->
                  IF variant = "uint64"
                  THEN mzd_mul_v_uint64(mzd.job.c, mzd.job.v, mzd.job.A).mem
                  ELSE kernel_run(
                         mzd_mul_v_kernel(variant, FALSE, mzd.job.v, mzd.job.A),
                         IF variant \in {"sse", "avx", "neon"}
                         THEN mzd_local_clear(mzd.job.c) ELSE mzd.job.c,
                         mzd.job.v, mzd.job.A, MaskWord(0)).mem]]
  /\ UNCHANGED <<picnicVars, fn>>

MzdAddmulV ==
  /\ mzd.call = "none" /\ mzd.job.fam = "mul"
  /\ \E upper \in UndefinedWords :
       mzd' = [mzd EXCEPT !.call = "addmul_v", !.upper = upper,
         !.out = [variant \in mzd_mul_v_variants(mzd.job.v.width) \cup {"uint64"} |->
                    IF variant = "uint64"
                    THEN mzd_addmul_v_uint64(mzd.job.c, mzd.job.v, mzd.job.A).mem
                    ELSE kernel_run(
                           mzd_mul_v_kernel(variant, TRUE, mzd.job.v, mzd.job.A),
                           mzd.job.c, mzd.job.v, mzd.job.A, upper).mem]]
  /\ UNCHANGED <<picnicVars, fn>>

\* the first `width` words of the first row of a destination: its columns
DataWords(mem, width) == SubSeq(mem, 1, width)

\* bit j of a row of words
BitOfWords(ws, j) == ws[(j \div WordBits) + 1][(j % WordBits) + 1]

\* column j of the XOR of the rows i of A whose bit i of v is set, bit i of v
\* being bit (i mod WordBits) of its word floor(i / WordBits)
SelectedRowsXor(v, A, j) ==
  Cardinality({i \in 0..(A.nrows - 1) :
                 v.mem[(i \div WordBits) + 1][(i % WordBits) + 1] = 1
                 /\ mzd_bit(A, i, j) = 1}) % 2

\* C14: mzd_addmul_v_uint64(c, v, A) leaves in every column of c its initial
\* bit XORed with the XOR, over the rows i of A selected by bit i of v
\* (least significant bit first within and across the words of v), of that
\* column of the row; mzd_mul_v_uint64 leaves what it would leave on a
\* cleared c: the XOR of the selected rows alone and zero in every other
\* word of c.
C14_AddmulSelectsRows ==
  /\ mzd.call = "addmul_v" =>
       /\ \A j \in 0..(mzd.job.c.ncols - 1) :
            BitOfWords(mzd.out["uint64"], j)
              = Xor(mzd_bit(mzd.job.c, 0, j), SelectedRowsXor(mzd.job.v, mzd.job.A, j))
       /\ \A i \in (mzd.job.c.width + 1)..Len(mzd.job.c.mem) :
            mzd.out["uint64"][i] = mzd.job.c.mem[i]
  /\ mzd.call = "mul_v" =>
       /\ \A j \in 0..(mzd.job.c.ncols - 1) :
            BitOfWords(mzd.out["uint64"], j) = SelectedRowsXor(mzd.job.v, mzd.job.A, j)
       /\ mzd.out["uint64"]
            = mzd_addmul_v_uint64(mzd_local_clear(mzd.job.c), mzd.job.v, mzd.job.A).mem
       /\ \A i \in (mzd.job.c.width + 1)..Len(mzd.job.c.mem) :
            mzd.out["uint64"][i] = MaskWord(0)

\* mzd_mul_v_uint64 ran on a c that was not zero, with bits set in both the
\* first and the last word of v, and changed c
C14_Witness ==
  /\ mzd.call = "mul_v"
  /\ mzd.job.c.mem[1] # MaskWord(0)
  /\ mzd.job.v.mem[1] # MaskWord(0)
  /\ mzd.job.v.mem[mzd.job.v.width] # MaskWord(0)
  /\ mzd.job.v.width = 3
  /\ DataWords(mzd.out["uint64"], 3) # DataWords(mzd.job.c.mem, 3)
  /\ DataWords(mzd.out["uint64"], 3) # <<MaskWord(0), MaskWord(0), MaskWord(0)>>

(***************************************************************************)
(* The lookup form: mzd_precompute_matrix_lookup, mzd_addmul_vl_* and      *)
(* mzd_mul_vl_*.  A byte of idx is scaled from 8 bits to LookupBits bits,  *)
(* so the 256 combinations become LookupRows and the 32-fold expansion     *)
(* (256 rows for every 8 rows of A) becomes LookupExpansion.               *)
(***************************************************************************)
\* 256: the values of a byte, 0xff + 1
LookupRows == Pow2(LookupBits)

\* 32: the rows of B for one row of A
LookupExpansion == LookupRows \div LookupBits

\* xor_comb that leaves its loop after the lowest bit of comb
xor_comb_lowBitOnly(Brow, A, r_offset, comb) ==
  IF comb % 2 = 1 THEN xor_region(Brow, Region(A, ROW(A, r_offset), A.width)) ELSE Brow

\* while (comb) { if (comb & 1) Brow ^= row r_offset of A; comb >>= 1; ++r_offset }
RECURSIVE xor_comb(_, _, _, _)
xor_comb(Brow, A, r_offset, comb) ==
  IF comb = 0 THEN Brow
  ELSE xor_comb(IF comb % 2 = 1
                THEN xor_region(Brow, Region(A, ROW(A, r_offset), A.width))
                ELSE Brow,
                A, r_offset + 1, comb \div 2)

\* B = mzd_local_init_ex(32 * A->nrows, A->ncols, true); row r of B is the XOR
\* of the rows ((r >> 8) << 3) + bit of A over the set bits of r & 0xff
mzd_precompute_matrix_lookup(A) ==
  [mzd_local_init_ex(LookupExpansion * A.nrows, A.ncols, TRUE, MaskWord(0)) EXCEPT !.mem =
     Flatten(Tup([r1 \in 1..(LookupExpansion * A.nrows) |->
       xor_comb(Tup([j \in 1..A.width |-> MaskWord(0)]), A,
                ((r1 - 1) \div LookupRows) * LookupBits, (r1 - 1) % LookupRows)
         \o Tup([j \in 1..(calculate_rowstride(A.width) - A.width) |-> MaskWord(0)])]))]

\* for each word of v: add = 0; while (idx) { comb = idx & 0xff;
\* cptr ^= row (w * 64 * 32 + add + comb) of A; idx >>= 8; add += 256 }
mzd_addmul_vl_uint64(c, v, A) ==
  LET RECURSIVE loop(_, _, _, _)
      loop(w, idx, add, cptr) ==
        IF w = v.width THEN cptr
        ELSE IF idx = MaskWord(0)
        THEN loop(w + 1, IF w + 1 < v.width THEN v.mem[w + 2] ELSE MaskWord(0), 0, cptr)
        ELSE Bind(<<ShiftRight(idx, LookupBits),
                    xor_region(cptr,
                      Region(A, ROW(A, w * WordBits * LookupExpansion + add + comb_of(idx, 0)),
                             A.width))>>,
                  LAMBDA nx : loop(w, nx[1], add + LookupRows, nx[2]))
  IN IF v.width = 0 THEN c
     ELSE WithRegion(c, 0, loop(0, v.mem[1], 0, Region(c, 0, A.width)))

mzd_mul_vl_uint64(c, v, A) == mzd_addmul_vl_uint64(mzd_local_clear(c), v, A)

\* a piece picked by byte k of idx: mAptr + base + stride * ((idx >> 8k) & 0xff)
BytePiece(base, len, k, stride) ==
  [sel |-> "byte", base |-> base, len |-> len, at |-> k, stride |-> stride]

ByteOp(acc, base, len, k, stride) ==
  [acc |-> acc, pieces |-> <<BytePiece(base, len, k, stride)>>]

\* the routines of mzd_mul_vl / mzd_addmul_vl; moff2 is in words here
mzd_mul_vl_kernel(variant, add, v, A) ==
  CASE variant \in {"sse", "neon", "avx"} ->
         [outer |-> v.width, bits |-> LookupBits, adv |-> LookupRows * A.rowstride,
          cval |-> A.rowstride, load |-> IF add THEN A.rowstride ELSE 0, undef |-> 0,
          ops |-> <<ByteOp(0, 0, A.rowstride, 0, A.rowstride)>>,
          fold |-> <<[at |-> 0, len |-> A.rowstride]>>]
    [] variant \in {"sse_128", "neon_128"} ->
         LET moff2 == LookupRows * Words128
         IN [outer |-> 2, bits |-> 2 * LookupBits, adv |-> 2 * moff2,
             cval |-> 2 * Words128, load |-> IF add THEN Words128 ELSE 0, undef |-> 0,
             ops |-> <<ByteOp(0, 0, Words128, 0, Words128),
                       ByteOp(Words128, moff2, Words128, 1, Words128)>>,
             fold |-> <<[at |-> 0, len |-> Words128], [at |-> Words128, len |-> Words128]>>]
    [] variant \in {"sse_192", "neon_192", "sse_256", "neon_256"} ->
         LET moff2 == 2 * LookupRows * Words128
         IN [outer |-> IF variant \in {"sse_192", "neon_192"} THEN 3 ELSE 4,
             bits |-> 2 * LookupBits, adv |-> 2 * moff2,
             cval |-> 4 * Words128, load |-> IF add THEN 2 * Words128 ELSE 0, undef |-> 0,
             ops |-> <<ByteOp(0, 0, 2 * Words128, 0, 2 * Words128),
                       ByteOp(2 * Words128, moff2, 2 * Words128, 1, 2 * Words128)>>,
             fold |-> <<[at |-> 0, len |-> 2 * Words128],
                        [at |-> 2 * Words128, len |-> 2 * Words128]>>]
    [] variant = "avx_128" ->
         \* t1 = _mm256_set_m128i(mAptr[byte 0], mAptr[byte 1 + moff2]): the
         \* second argument is the low half
         LET moff2 == LookupRows * Words128
         IN [outer |-> 2, bits |-> 4 * LookupBits, adv |-> 4 * moff2,
             cval |-> 2 * Words256, load |-> IF add THEN Words128 ELSE 0,
             undef |-> IF add THEN Words256 - Words128 ELSE 0,
             ops |-> <<[acc |-> 0,
                        pieces |-> <<BytePiece(moff2, Words128, 1, Words128),
                                     BytePiece(0, Words128, 0, Words128)>>],
                       [acc |-> Words256,
                        pieces |-> <<BytePiece(3 * moff2, Words128, 3, Words128),
                                     BytePiece(2 * moff2, Words128, 2, Words128)>>]>>,
             fold |-> <<[at |-> 0, len |-> Words128], [at |-> Words128, len |-> Words128],
                        [at |-> Words256, len |-> Words128],
                        [at |-> Words256 + Words128, len |-> Words128]>>]
    [] variant \in {"avx_192", "avx_256"} ->
         LET moff2 == LookupRows * Words256
         IN [outer |-> IF variant = "avx_192" THEN 3 ELSE 4,
             bits |-> 2 * LookupBits, adv |-> 2 * moff2,
             cval |-> 2 * Words256, load |-> IF add THEN Words256 ELSE 0, undef |-> 0,
             ops |-> <<ByteOp(0, 0, Words256, 0, Words256),
                       ByteOp(Words256, moff2, Words256, 1, Words256)>>,
             fold |-> <<[at |-> 0, len |-> Words256], [at |-> Words256, len |-> Words256]>>]

MzdMulVl ==
  /\ mzd.call = "none" /\ mzd.job.fam = "mul"
  /\ \E B \in {mzd_precompute_matrix_lookup(mzd.job.A)} :
       mzd' = [mzd EXCEPT !.call = "mul_vl", !.lookup = B,
         !.out = [variant \in mzd_mul_v_variants(mzd.job.v.width) \cup {"uint64"} |->
                    IF variant = "uint64"
                    THEN mzd_mul_vl_uint64(mzd.job.c, mzd.job.v, B).mem
                    ELSE kernel_run(
                           mzd_mul_vl_kernel(variant, FALSE, mzd.job.v, B),
                           IF variant \in {"sse", "avx", "neon"}
                           THEN mzd_local_clear(mzd.job.c) ELSE mzd.job.c,
                           mzd.job.v, B, MaskWord(0)).mem]]
  /\ UNCHANGED <<picnicVars, fn>>

MzdAddmulVl ==
  /\ mzd.call = "none" /\ mzd.job.fam = "mul"
  /\ \E B \in {mzd_precompute_matrix_lookup(mzd.job.A)}, upper \in UndefinedWords :
       mzd' = [mzd EXCEPT !.call = "addmul_vl", !.upper = upper, !.lookup = B,
         !.out = [variant \in mzd_mul_v_variants(mzd.job.v.width) \cup {"uint64"} |->
                    IF variant = "uint64"
                    THEN mzd_addmul_vl_uint64(mzd.job.c, mzd.job.v, B).mem
                    ELSE kernel_run(
                           mzd_mul_vl_kernel(variant, TRUE, mzd.job.v, B),
                           mzd.job.c, mzd.job.v, B, upper).mem]]
  /\ UNCHANGED <<picnicVars, fn>>

\* C15: on a matrix A with WordBits * w rows and a vector v of width w,
\* mzd_mul_vl_uint64 with mzd_precompute_matrix_lookup(A) leaves in c what
\* mzd_mul_v_uint64 leaves with A, and mzd_addmul_vl_uint64 what
\* mzd_addmul_v_uint64 leaves, whatever c held, also when the high bytes of
\* the words of v are zero and the lookup loop stops early.
C15_LookupEqualsDirect ==
  /\ mzd.call = "mul_vl" =>
       mzd.out["uint64"] = mzd_mul_v_uint64(mzd.job.c, mzd.job.v, mzd.job.A).mem
  /\ mzd.call = "addmul_vl" =>
       mzd.out["uint64"] = mzd_addmul_v_uint64(mzd.job.c, mzd.job.v, mzd.job.A).mem

\* mzd_addmul_vl_uint64 ran on a v whose words have a non-zero low byte and
\* zero high bytes, on a matrix of WordBits * w rows, and changed c
C15_Witness ==
  /\ mzd.call = "addmul_vl"
  /\ mzd.job.A.nrows = WordBits * mzd.job.v.width
  /\ \A w \in 1..mzd.job.v.width :
       /\ comb_of(mzd.job.v.mem[w], 0) # 0
       /\ ShiftRight(mzd.job.v.mem[w], LookupBits) = MaskWord(0)
  /\ DataWords(mzd.out["uint64"], mzd.job.c.width) # DataWords(mzd.job.c.mem, mzd.job.c.width)

(***************************************************************************)
(* mzd_mul_v_parity_{uint64,popcnt}_{128,192,256}_{30,3}.  The 30 of the   *)
(* 64-bit word is scaled to ParityManyBits of WordBits; the 3 is kept.     *)
(***************************************************************************)
\* the k of the _3 routines
ParityFewBits == 3

\* the k of the _30 routines, scaled
ParityManyBits == 6

\* parity64_popcnt: _mm_popcnt_u64(in) & 1, and where there is no 64-bit
\* popcount (_mm_popcnt_u32(in >> 32) ^ _mm_popcnt_u32(in)) & 1
parity64_popcnt(variant, in) ==
  IF variant = "popcnt"
  THEN Cardinality({b \in 1..WordBits : in[b] = 1}) % 2
  ELSE Xor(Cardinality({b \in ((WordBits \div 2) + 1)..WordBits : in[b] = 1}) % 2,
           Cardinality({b \in 1..(WordBits \div 2) : in[b] = 1}) % 2)

\* res |= popcnt << (sh - 1)
OrShifted_oneLower(res, popcnt, sh) ==
  Tup([b \in 1..WordBits |-> IF b = sh /\ popcnt = 1 THEN 1 ELSE res[b]])

\* res |= popcnt << sh
OrShifted(res, popcnt, sh) ==
  Tup([b \in 1..WordBits |-> IF b - 1 = sh /\ popcnt = 1 THEN 1 ELSE res[b]])

\* every width clearing cptr[0] alone
parity_clear_firstOnly(c, width) == WithRegion(c, 0, <<MaskWord(0)>>)

\* `cptr[0] = 0` of the 128-bit routines, the loop `cptr[j] = 0` for j < 2 of
\* the 192-bit and for j < 3 of the 256-bit ones
parity_clear(c, width) == WithRegion(c, 0, Tup([j \in 1..(width - 1) |-> MaskWord(0)]))

\* (vptr[0] & A[0]) ^ (vptr[1] & A[1]) ^ ... over the words of the width
RECURSIVE and_xor(_, _, _)
and_xor(vptr, A, n) ==
  IF n = 1 THEN WordAnd(vptr[1], A[1])
  ELSE XorBits(and_xor(vptr, A, n - 1), WordAnd(vptr[n], A[n]))

\* for (i = k; i; --i) { A = CONST_ROW(At, k - i);
\*   res |= parity(and_xor) << (64 - i); }  cptr[width - 1] = res
mzd_mul_v_parity(variant, k, c, v, At) ==
  LET RECURSIVE loop(_, _)
      loop(i, res) ==
        IF i = 0 THEN res
        ELSE loop(i - 1,
                  OrShifted(res,
                    LET in == and_xor(Region(v, 0, v.width),
                                      Region(At, ROW(At, k - i), v.width), v.width)
                    IN IF variant = "uint64" THEN parity64(in)
                       ELSE parity64_popcnt(variant, in),
                    WordBits - i))
  IN WithRegion(parity_clear(c, v.width), v.width - 1, <<loop(k, MaskWord(0))>>)

ParityJobs ==
  {[fam |-> "parity", k |-> k,
    v |-> Operand(sv, 1, w * WordBits, WordBits, pad),
    At |-> Operand(sa, k, w * WordBits, WordBits, pad),
    c |-> Operand(sa + sv + 1, 1, w * WordBits, WordBits, 1 - pad)] :
     sv \in 0..MaxSeed, sa \in 0..MaxSeed, k \in {ParityFewBits, ParityManyBits},
     w \in Widths, pad \in {0, 1}}

MzdParity ==
  /\ mzd.call = "none" /\ mzd.job.fam = "parity"
  /\ mzd' = [mzd EXCEPT !.call = "parity",
       !.out = [variant \in {"uint64", "popcnt", "popcnt_32"} |->
                  mzd_mul_v_parity(variant, mzd.job.k, mzd.job.c, mzd.job.v, mzd.job.At).mem]]
  /\ UNCHANGED <<picnicVars, fn>>

\* the parity of the bitwise AND of v with row i of At, column by column
ParityOfRow(v, At, i) ==
  Cardinality({j \in 0..(At.ncols - 1) : mzd_bit(v, 0, j) = 1 /\ mzd_bit(At, i, j) = 1}) % 2

\* bit b of the last word of c as a parity routine left it
ParityResultBit(variant, b) == mzd.out[variant][mzd.job.v.width][b + 1]

\* C16 as stated: for every i in 0..k-1, bit (63 - i) of the last word of c
\* is the parity of the AND of v with row i of At (row 0 in the top bit)
C16_RowZeroInTopBit ==
  mzd.call = "parity" =>
    \A variant \in DOMAIN mzd.out : \A i \in 0..(mzd.job.k - 1) :
      ParityResultBit(variant, WordBits - 1 - i) = ParityOfRow(mzd.job.v, mzd.job.At, i)

\* C16, amended: for k the few or the many bits and every state width,
\* mzd_mul_v_parity_*_k(c, v, At) sets, for every i in 0..k-1, bit
\* (64 - k + i) of the last word of c to the parity of the bitwise AND of v
\* with row i of At: row 0 of At lands in bit 64 - k and row k - 1 in the top
\* bit (the word being WordBits bits here)
C16_ParityBitPositions ==
  mzd.call = "parity" =>
    \A variant \in DOMAIN mzd.out : \A i \in 0..(mzd.job.k - 1) :
      ParityResultBit(variant, WordBits - mzd.job.k + i)
        = ParityOfRow(mzd.job.v, mzd.job.At, i)

\* a _30 routine ran on three-word operands whose first and last rows of At
\* have different parities with v
C16_Witness ==
  /\ mzd.call = "parity" /\ mzd.job.k = ParityManyBits /\ mzd.job.v.width = 3
  /\ ParityOfRow(mzd.job.v, mzd.job.At, 0) = 1
  /\ ParityOfRow(mzd.job.v, mzd.job.At, mzd.job.k - 1) = 0
  /\ ParityResultBit("uint64", WordBits - mzd.job.k) = 1
  /\ ParityResultBit("uint64", WordBits - 1) = 0

\* C17: after mzd_mul_v_parity_*_k on any v, At and previous content of c,
\* the bits 0..63-k of the last word of c are 0 and every lower word of c is
\* 0: only the top k bits of the last word can be set
C17_ParityLowBitsZero ==
  mzd.call = "parity" =>
    \A variant \in DOMAIN mzd.out :
      /\ \A b \in 0..(WordBits - 1 - mzd.job.k) : ParityResultBit(variant, b) = 0
      /\ \A w \in 1..(mzd.job.v.width - 1) : mzd.out[variant][w] = MaskWord(0)

\* a parity routine ran on a four-word c whose every data word and whose low
\* bits of the last word were set, and left a bit in the top k
C17_Witness ==
  /\ mzd.call = "parity" /\ mzd.job.v.width = 4
  /\ \A w \in 1..4 : mzd.job.c.mem[w] # MaskWord(0)
  /\ \E b \in 0..(WordBits - 1 - mzd.job.k) : mzd.job.c.mem[4][b + 1] = 1
  /\ mzd.out["popcnt"][4] # MaskWord(0)

(***************************************************************************)
(* extract_bits, mzd_shuffle_30 / _3 and mzd_shuffle_pext_30 / _3.  The    *)
(* shifts by 34 and 61 are 64 - k: here WordBits - k.                      *)
(***************************************************************************)
\* x << n on a word
ShiftLeft(x, n) == Tup([i \in 1..WordBits |-> IF i - n >= 1 THEN x[i - n] ELSE 0])

\* a | b and ~a on words
WordOr(a, b) == Tup([i \in 1..WordBits |-> IF a[i] = 1 \/ b[i] = 1 THEN 1 ELSE 0])

WordNot(a) == Tup([i \in 1..WordBits |-> 1 - a[i]])

\* for (bb = 1; mask != 0; bb <<= 1, mask &= (mask - 1))
\*   res |= bb & (-((word) !!(in & mask & -mask)));
\* bb is the bit with index n; mask & -mask is the lowest set bit of mask
RECURSIVE extract_bits_loop(_, _, _, _)
extract_bits_loop(in, mask, n, res) ==
  IF mask = MaskWord(0) THEN res
  ELSE LET lowest == CHOOSE b \in 1..WordBits :
                       mask[b] = 1 /\ \A b2 \in 1..(b - 1) : mask[b2] = 0
       IN extract_bits_loop(in, [mask EXCEPT ![lowest] = 0], n + 1,
            IF n < WordBits /\ in[lowest] = 1 THEN [res EXCEPT ![n + 1] = 1] ELSE res)

\* extract_bits packing the bits from the top of its result down
extract_bits_descending(in, mask) ==
  Tup([i \in 1..WordBits |-> extract_bits_loop(in, mask, 0, MaskWord(0))[WordBits + 1 - i]])

extract_bits(in, mask) == extract_bits_loop(in, mask, 0, MaskWord(0))

\* the PEXT instruction on operands of Len(a) bits: the bits of a at the set
\* positions of mask, packed from bit 0 up, zero above
pext(a, mask) ==
  Tup([i \in 1..Len(a) |->
    IF i <= Cardinality({b \in 1..Len(a) : mask[b] = 1})
    THEN a[CHOOSE b \in 1..Len(a) :
             mask[b] = 1 /\ Cardinality({b2 \in 1..(b - 1) : mask[b2] = 1}) = i - 1]
    ELSE 0])

\* popcount_32(value): the number of set bits of the low half of a word
popcount_32(value) == Cardinality({b \in 1..(WordBits \div 2) : value[b] = 1})

\* _pext_u64: the instruction, and where there is none for 64 bits
\* (high << popcount_32(mask)) | low of the two _pext_u32
pext_u64(variant, a, mask) ==
  IF variant = "pext" THEN pext(a, mask)
  ELSE LET half == WordBits \div 2
           low == pext(SubSeq(a, 1, half), SubSeq(mask, 1, half))
           high == pext(SubSeq(a, half + 1, WordBits), SubSeq(mask, half + 1, WordBits))
       IN WordOr(ShiftLeft(high \o Tup([i \in 1..half |-> 0]), popcount_32(mask)),
                 low \o Tup([i \in 1..half |-> 0]))

\* the shuffle with the masked bits at the bottom and the others shifted above
shuffle_word_maskLow(variant, k, last, mask) ==
  WordOr(extract_bits(last, mask), ShiftLeft(extract_bits(last, WordNot(mask)), k))

\* a = extract(last, mask) << (64 - k); last = a | extract(last, ~mask)
shuffle_word(variant, k, last, mask) ==
  IF variant = "uint64"
  THEN WordOr(ShiftLeft(extract_bits(last, mask), WordBits - k),
              extract_bits(last, WordNot(mask)))
  ELSE WordOr(ShiftLeft(pext_u64(variant, last, mask), WordBits - k),
              pext_u64(variant, last, WordNot(mask)))

\* mzd_shuffle_30 / mzd_shuffle_3 (variant "uint64") and mzd_shuffle_pext_30 /
\* mzd_shuffle_pext_3: the last word of the first row of x
mzd_shuffle(variant, k, x, mask) ==
  WithRegion(x, x.width - 1, <<shuffle_word(variant, k, x.mem[x.width], mask)>>)

\* every word, and the masks with k set bits
AllWords == {Tup(f) : f \in [1..WordBits -> {0, 1}]}

Masks(k) == {m \in AllWords : Cardinality({b \in 1..WordBits : m[b] = 1}) = k}

ShuffleJobs ==
  {[fam |-> "shuffle", k |-> k, mask |-> m,
    x |-> Operand(sx, 1, w * WordBits, WordBits, 0)] :
     k \in {ParityFewBits}, m \in Masks(ParityFewBits), sx \in 0..MaxSeed, w \in Widths}
  \cup
  {[fam |-> "shuffle", k |-> k, mask |-> m,
    x |-> Operand(sx, 1, w * WordBits, WordBits, 0)] :
     k \in {ParityManyBits}, m \in Masks(ParityManyBits), sx \in 0..MaxSeed, w \in Widths}

MzdShuffle ==
  /\ mzd.call = "none" /\ mzd.job.fam = "shuffle"
  /\ mzd' = [mzd EXCEPT !.call = "shuffle",
       !.out = [variant \in {"uint64", "pext", "pext_32"} |->
                  mzd_shuffle(variant, mzd.job.k, mzd.job.x, mzd.job.mask).mem]]
  /\ UNCHANGED <<picnicVars, fn>>

MzdJobs == XorJobs \cup MulJobs \cup ParityJobs \cup ShuffleJobs

MzdInit ==
  /\ mzd \in {[job |-> j, call |-> "none", out |-> NULL, upper |-> NULL,
               lookup |-> NULL] : j \in MzdJobs}
  /\ params = NULL /\ privateKey = NULL /\ pubKey = NULL /\ plaintext = NULL
  /\ message = NULL /\ signature = NULL /\ signature_len = NULL /\ pc = NULL
  /\ t = NULL /\ sig = NULL /\ iSeedsTree = NULL /\ seeds = NULL
  /\ tapes = NULL /\ C = NULL /\ inputs = NULL /\ msgs = NULL /\ Ch = NULL
  /\ Cv = NULL /\ treeCv = NULL /\ ret = NULL /\ challengeC = NULL
  /\ challengeP = NULL /\ signRet = NULL /\ verifyRet = NULL /\ signed = NULL
  /\ simRets = NULL /\ deser = NULL /\ checks = NULL /\ auxGates = NULL
  /\ fn = NULL

MzdNext ==
  \/ MzdXor
  \/ MzdMulV
  \/ MzdAddmulV
  \/ MzdMulVl
  \/ MzdAddmulVl
  \/ MzdParity
  \/ MzdShuffle

MzdSpec == MzdInit /\ [][MzdNext]_vars

\* the position of the j-th bit (from 0, ascending) of mask that equals val
NthPosition(mask, val, j) ==
  CHOOSE b \in 0..(WordBits - 1) :
    mask[b + 1] = val /\ Cardinality({b2 \in 0..(b - 1) : mask[b2 + 1] = val}) = j

\* C18: for a mask with k set bits, mzd_shuffle_30 (mzd_shuffle_3) replaces
\* the last word of x by a permutation of its bits: the bits at the set
\* positions of the mask, in ascending order of position, fill the top k
\* bits (34..63, resp. 61..63) from the lowest up, the bits at the clear
\* positions, in ascending order, fill the bits below; every other word of x
\* is unchanged; and the PEXT routines leave the same x as the portable
\* extract_bits ones.
C18_ShufflePermutes ==
  mzd.call = "shuffle" =>
    \A variant \in DOMAIN mzd.out :
      /\ \A j \in 0..(mzd.job.k - 1) :
           mzd.out[variant][mzd.job.x.width][WordBits - mzd.job.k + j + 1]
             = mzd.job.x.mem[mzd.job.x.width][NthPosition(mzd.job.mask, 1, j) + 1]
      /\ \A j \in 0..(WordBits - mzd.job.k - 1) :
           mzd.out[variant][mzd.job.x.width][j + 1]
             = mzd.job.x.mem[mzd.job.x.width][NthPosition(mzd.job.mask, 0, j) + 1]
      /\ \A i \in 1..Len(mzd.job.x.mem) :
           i # mzd.job.x.width => mzd.out[variant][i] = mzd.job.x.mem[i]
      /\ mzd.out[variant] = mzd.out["uint64"]

\* mzd_shuffle_30 ran with a mask whose set bits are not contiguous and whose
\* lowest and highest bits are set, on a three-word x, and changed its last
\* word
C18_Witness ==
  /\ mzd.call = "shuffle" /\ mzd.job.k = ParityManyBits /\ mzd.job.x.width = 3
  /\ mzd.job.mask[1] = 1 /\ mzd.job.mask[2] = 0 /\ mzd.job.mask[WordBits] = 1
  /\ mzd.out["uint64"][3] # mzd.job.x.mem[3]
  /\ mzd.out["pext_32"][3] # mzd.job.x.mem[3]

\* the masks m2 with k set bits for which shuffle_k(shuffle_k(x, m), m2) = x
\* for every x
ReversingMasks(k, m) ==
  {m2 \in Masks(k) :
     \A x \in AllWords :
       shuffle_word("uint64", k, shuffle_word("uint64", k, x, m), m2) = x}

\* within the bits lo..hi of m no set bit lies below a clear bit
ClearBelowSet(m, lo, hi) ==
  \A b \in lo..hi : \A b2 \in (b + 1)..hi : m[b + 1] = 1 => m[b2 + 1] = 1

\* C19 as stated: for every mask m with k set bits there is exactly one mask
\* m2 with k set bits such that shuffle_k(shuffle_k(x, m), m2) = x for every x
C19_EveryMaskReversible ==
  mzd.call = "shuffle" => Cardinality(ReversingMasks(mzd.job.k, mzd.job.mask)) = 1

\* C19, amended: for every mask m with k set bits there is at most one mask
\* m2 with k set bits such that shuffle_k(shuffle_k(x, m), m2) = x for every
\* x, and there is one exactly when, within the bits 0..63-k of m and within
\* its bits 64-k..63, no set bit lies below a clear bit; that m2 is then m
\* itself and takes the x the routine left back to the x it was given.
C19_AtMostOneReversingMask ==
  mzd.call = "shuffle" =>
    \E R \in {ReversingMasks(mzd.job.k, mzd.job.mask)} :
      /\ Cardinality(R) <= 1
      /\ R \subseteq {mzd.job.mask}
      /\ R # {} <=> /\ ClearBelowSet(mzd.job.mask, 0, WordBits - mzd.job.k - 1)
                    /\ ClearBelowSet(mzd.job.mask, WordBits - mzd.job.k, WordBits - 1)
      /\ \A m2 \in R :
           mzd_shuffle("uint64", mzd.job.k, [mzd.job.x EXCEPT !.mem = mzd.out["uint64"]], m2)
             = mzd.job.x

\* mzd_shuffle_3 ran with a mask that has a reversing mask, with set bits
\* both in the top three bits and below them, and changed x
C19_Witness ==
  /\ mzd.call = "shuffle" /\ mzd.job.k = ParityFewBits
  /\ mzd.out["uint64"] # mzd.job.x.mem
  /\ mzd.job.mask[WordBits] = 1 /\ mzd.job.mask[WordBits - ParityFewBits + 1] = 0
  /\ ReversingMasks(mzd.job.k, mzd.job.mask) # {}

(***************************************************************************)
(* mzd_xor: which elements of res it sets                                  *)
(***************************************************************************)
\* the matrix a routine of mzd_xor left in res
XorResult(variant) == [mzd.job.res EXCEPT !.mem = mzd.out[variant]]

\* first[i,j] XOR second[i,j]
XorOfOperands(i, j) == Xor(mzd_bit(mzd.job.first, i, j), mzd_bit(mzd.job.second, i, j))

\* C20 as stated: xor(res, a, b) sets every element res[i,j], for every row
\* i < nrows and every column j < ncols, to a[i,j] XOR b[i,j].
C20_XorEveryRow ==
  mzd.call = "xor" =>
    \A variant \in DOMAIN mzd.out :
      \A i \in 0..(mzd.job.res.nrows - 1), j \in 0..(mzd.job.res.ncols - 1) :
        mzd_bit(XorResult(variant), i, j) = XorOfOperands(i, j)

\* C20, amended: every routine of mzd_xor sets every element res[0,j] of the
\* first row, for every column j < ncols of equally shaped operands, to
\* a[0,j] XOR b[0,j], and leaves every word of every other row of res as it was.
C20_XorFirstRow ==
  mzd.call = "xor" =>
    \A variant \in DOMAIN mzd.out :
      /\ \A j \in 0..(mzd.job.res.ncols - 1) :
           mzd_bit(XorResult(variant), 0, j) = XorOfOperands(0, j)
      /\ \A i \in 1..(mzd.job.res.nrows - 1) :
           Region(XorResult(variant), ROW(mzd.job.res, i), mzd.job.res.rowstride)
             = Region(mzd.job.res, ROW(mzd.job.res, i), mzd.job.res.rowstride)

\* a xor of operands of two rows and three words, where res held neither the
\* XOR of the first rows nor that of the second rows before the call
C20_Witness ==
  /\ mzd.call = "xor"
  /\ mzd.job.res.nrows = 2 /\ mzd.job.res.width = 3
  /\ \E j \in 0..(mzd.job.res.ncols - 1) : mzd_bit(mzd.job.res, 0, j) # XorOfOperands(0, j)
  /\ \E j \in 0..(mzd.job.res.ncols - 1) : mzd_bit(mzd.job.res, 1, j) # XorOfOperands(1, j)
  /\ \E j \in 0..(mzd.job.res.ncols - 1) : XorOfOperands(0, j) = 1

(***************************************************************************)
(* The routines of one operation against its uint64 routine                *)
(***************************************************************************)
\* the matrix a call writes: res of mzd_xor, x of mzd_shuffle, c of the others
Destination(job) ==
  CASE job.fam = "xor" -> job.res
    [] job.fam = "shuffle" -> job.x
    [] OTHER -> job.c

\* the words of the columns of every row of a destination whose memory is
\* mem: rowstride - width words of padding follow them in a row
ColumnWords(dst, mem) ==
  [r \in 0..(dst.nrows - 1) |-> SubSeq(mem, ROW(dst, r) + 1, ROW(dst, r) + dst.width)]

\* C13: for widths 128, 192 and 256 and every v, A and initial c, each SSE2,
\* AVX2, NEON, POPCNT or PEXT routine of an operation (xor, mul_v, addmul_v,
\* mul_vl, addmul_vl, the parity products, the shuffles) leaves the same bits
\* in its destination as the uint64 routine of that operation.
C13_BackendEquivalence ==
  mzd.call # "none" =>
    \A variant \in DOMAIN mzd.out :
      ColumnWords(Destination(mzd.job), mzd.out[variant])
        = ColumnWords(Destination(mzd.job), mzd.out["uint64"])

\* the same, leaving out the two routines that read the upper half of
\* _mm256_castsi128_si256(*mcptr) when that half is not zero
BackendEquivalenceWhereDefined ==
  mzd.call # "none" =>
    \A variant \in DOMAIN mzd.out :
      \/ /\ mzd.call \in {"addmul_v", "addmul_vl"}
         /\ variant = "avx_128"
         /\ mzd.upper # MaskWord(0)
      \/ ColumnWords(Destination(mzd.job), mzd.out[variant])
           = ColumnWords(Destination(mzd.job), mzd.out["uint64"])

\* mzd_addmul_v_avx_128 differs from mzd_addmul_v_uint64 in a state where the
\* undefined half held ones
AddmulAvx128Differs ==
  /\ mzd.call = "addmul_v"
  /\ mzd.upper = MaskWord(1)
  /\ mzd.out["avx_128"] # mzd.out["uint64"]
  /\ mzd.out["sse_128"] = mzd.out["uint64"]

(***************************************************************************)
(* Functions called on their own.  fn.name is the function, fn.in its      *)
(* arguments, drawn at the start, and fn.out what the call left (NULL      *)
(* before it).  The parameter sets here include ones the signer above is   *)
(* not run with.                                                           *)
(***************************************************************************)
\* five rounds of which three are opened: a chunk of challengeC is longer
\* than a chunk of challengeP, as in the parameter sets of Picnic2
InstanceRounds5 == [InstanceA EXCEPT !.num_rounds = 5, !.num_opened_rounds = 3]

\* sixteen parties: a chunk of challengeC is shorter than a chunk of challengeP
InstanceParties16 == [InstanceA EXCEPT !.num_MPC_parties = 16]

HcpInstances == {InstanceA, InstanceRounds5, InstanceParties16}

\* the commitments handed to HCP are drawn by a number
MaxHcpSeed == 11

HcpJobs ==
  {[name |-> "HCP",
    in |-> [params |-> p,
            Ch |-> Tup([r \in 1..p.num_rounds |-> Hash(<<s, r>>, p.digest_size)]),
            hCv |-> Hash(<<s, 0, 0>>, p.digest_size),
            salt |-> Tup([i \in 1..SALT_SIZE |-> (s + i) % 256]),
            pubKey |-> Tup([i \in 1..p.input_size |-> (3 * s + i) % 256]),
            plaintext |-> Tup([i \in 1..p.input_size |-> 77]),
            message |-> m],
    out |-> NULL] : p \in HcpInstances, s \in 0..MaxHcpSeed, m \in Messages}

\* chunkCount of bitsToChunks: the entries of chunks it writes
chunkCount(chunkLenBits, inputLen) ==
  IF chunkLenBits > inputLen * 8 THEN 0 ELSE (inputLen * 8) \div chunkLenBits

\* calloc(params->digest_size * 8 / bitsPerChunkP, sizeof(uint16_t))
chunksCapacity(p) == (p.digest_size * 8) \div ceil_log2(p.num_MPC_parties)

\* the entries of chunks that the passes of HCP write: both loops run at
\* least once, and every call of bitsToChunks writes chunkCount entries
chunksWritten(p) ==
  <<chunkCount(ceil_log2(p.num_rounds), p.digest_size),
    chunkCount(ceil_log2(p.num_MPC_parties), p.digest_size)>>

\* a store past the end of the calloc'd chunks lands in memory the heap owns:
\* the call goes on with the entries it wrote, or faults
chunksStores(p) ==
  IF \E i \in 1..2 : chunksWritten(p)[i] > chunksCapacity(p)
  THEN {"returns", "faults"} ELSE {"returns"}

FnHCP ==
  /\ fn.name = "HCP" /\ fn.out = NULL
  /\ \E outcome \in chunksStores(fn.in.params) :
       fn' = [fn EXCEPT !.out =
                IF outcome = "faults"
                THEN [outcome |-> outcome, challengeC |-> NULL, challengeP |-> NULL]
                ELSE [outcome |-> outcome] @@
                     HCP(Zeros(fn.in.params.num_opened_rounds),
                         Zeros(fn.in.params.num_opened_rounds),
                         fn.in.Ch, fn.in.hCv, fn.in.salt, fn.in.pubKey,
                         fn.in.plaintext, fn.in.message, fn.in.params)]
  /\ UNCHANGED <<picnicVars, mzd>>

(***************************************************************************)
(* serializeSignature2 followed by deserializeSignature2, on signatures    *)
(* whose fields are drawn by a number                                      *)
(***************************************************************************)
\* a seed of two bytes for an input of one
InstanceSeed2 == [InstanceA EXCEPT !.seed_size = 2]

\* an input of two bytes (a state of sixteen bits) for a seed of one
InstanceInput2 == [InstanceA EXCEPT !.lowmc = LowMC(16, 1, 2), !.input_size = 2]

RoundTripInstances == {InstanceA, InstanceSeed2, InstanceInput2}

\* the signatures drawn, and the bytes of the buffer handed to the serializer
MaxSigSeed == 5
RoundTripBuffer == 96

\* len bytes, none of them zero, drawn by the numbers s and k; with padded,
\* the two low bits of the last byte are clear
SampleBytes(s, k, len, padded) ==
  Tup([i \in 1..len |->
    LET b == ((37 * s + 59 * k + 11 * i) % 251) + 5
    IN IF padded /\ i = len THEN b - (b % 4) ELSE b])

\* a signature2_t as sign_picnic2 leaves it: the lists valid, the lengths
\* those of revealSeeds and openMerkleTree, an opened round's proof filled
SampleSignature(p, s) ==
  LET cC == Tup([i \in 1..p.num_opened_rounds |-> (s + i - 1) % p.num_rounds])
      cP == Tup([i \in 1..p.num_opened_rounds |-> (s + 3 * i) % p.num_MPC_parties])
      iLen == revealSeedsSize(p.num_rounds, cC, p.num_opened_rounds, p)
      cvLen == openMerkleTreeSize(p.num_rounds, getMissingLeavesList(cC, p),
                                  p.num_rounds - p.num_opened_rounds, p)
      proofOf(r) ==
        LET hidden == cP[indexOf(cC, p.num_opened_rounds, r) + 1]
            sLen == revealSeedsSize(p.num_MPC_parties, <<hidden>>, 1, p)
        IN [allocateProof2(p) EXCEPT
              !.unOpenedIndex = hidden,
              !.seedInfoLen = sLen,
              !.seedInfo = SampleBytes(s, 10 * r + 1, sLen, FALSE),
              !.aux = IF hidden # p.num_MPC_parties - 1
                      THEN SampleBytes(s, 10 * r + 2, p.view_size, TRUE) ELSE @,
              !.input = SampleBytes(s, 10 * r + 3, p.input_size, FALSE),
              !.msgs = SampleBytes(s, 10 * r + 4, p.input_size + p.view_size, TRUE),
              !.C = SampleBytes(s, 10 * r + 5, p.digest_size, FALSE)]
  IN [allocateSignature2(p) EXCEPT
        !.salt = SampleBytes(s, 6, SALT_SIZE, FALSE),
        !.challengeC = cC, !.challengeP = cP,
        !.iSeedInfo = SampleBytes(s, 7, iLen, FALSE), !.iSeedInfoLen = iLen,
        !.cvInfo = SampleBytes(s, 8, cvLen, FALSE), !.cvInfoLen = cvLen,
        !.proofs = Tup([r1 \in 1..p.num_rounds |->
                     IF contains(cC, p.num_opened_rounds, r1 - 1) = 1
                     THEN proofOf(r1 - 1) ELSE NULL])]

RoundTripJobs ==
  {[name |-> "roundtrip", in |-> [params |-> p, sig |-> SampleSignature(p, s)],
    out |-> NULL] : p \in RoundTripInstances, s \in 0..MaxSigSeed}

\* memcpy(sig->proofs[t].input, sigBytes, params->seed_size) into the
\* input_size bytes of input: a copy past their end leaves the call to go on
\* or to fault
inputCopies(d) == IF d.overrun THEN {"returns", "faults"} ELSE {"returns"}

\* serializeSignature2 into a buffer, deserializeSignature2 of the bytes written
FnRoundTrip ==
  /\ fn.name = "roundtrip" /\ fn.out = NULL
  /\ \E ser \in {serializeSignature2(fn.in.sig,
                     Tup([i \in 1..RoundTripBuffer |-> BufferFill]),
                     RoundTripBuffer, fn.in.params)} :
     \E d \in {IF ser.ret = -1 THEN NULL
               ELSE deserializeSignature2(allocateSignature2(fn.in.params),
                      SubSeq(ser.sigBytes, 1, ser.ret), ser.ret, fn.in.params)} :
     \E outcome \in IF d = NULL THEN {"returns"} ELSE inputCopies(d) :
       fn' = [fn EXCEPT !.out = [outcome |-> outcome, ser |-> ser, deser |-> d]]
  /\ UNCHANGED <<picnicVars, mzd>>

FnJobs == HcpJobs \cup RoundTripJobs

FnInit ==
  /\ fn \in FnJobs
  /\ mzd = NULL
  /\ params = NULL /\ privateKey = NULL /\ pubKey = NULL /\ plaintext = NULL
  /\ message = NULL /\ signature = NULL /\ signature_len = NULL /\ pc = NULL
  /\ t = NULL /\ sig = NULL /\ iSeedsTree = NULL /\ seeds = NULL
  /\ tapes = NULL /\ C = NULL /\ inputs = NULL /\ msgs = NULL /\ Ch = NULL
  /\ Cv = NULL /\ treeCv = NULL /\ ret = NULL /\ challengeC = NULL
  /\ challengeP = NULL /\ signRet = NULL /\ verifyRet = NULL /\ signed = NULL
  /\ simRets = NULL /\ deser = NULL /\ checks = NULL /\ auxGates = NULL

FnNext ==
  \/ FnHCP
  \/ FnRoundTrip

FnSpec == FnInit /\ [][FnNext]_vars

(***************************************************************************)
(* HCP against the hash chain                                              *)
(***************************************************************************)
\* the hashes of the chain looked at
MaxChain == 6

\* h0 = H(Ch[0..], Cv root, salt, pubKey, plaintext, message)
ChainStart(in) ==
  Hash(Flatten(in.Ch) \o in.hCv \o in.salt \o in.pubKey \o in.plaintext \o in.message,
       in.params.digest_size)

\* h(i+1) = H(prefix_1, h(i))
RECURSIVE Chain(_, _)
Chain(in, i) ==
  IF i = 0 THEN ChainStart(in)
  ELSE HashPrefix(HASH_PREFIX_1, Chain(in, i - 1), in.params.digest_size)

\* the chunks of `bits` bits of h that are below bound, in order: bit j of a
\* chunk has weight 2^j
InRangeChunks(h, bits, bound) ==
  SelectSeq(Tup([c \in 1..((8 * Len(h)) \div bits) |->
              SumSeq([j \in 1..bits |->
                getBit(h, (c - 1) * bits + (j - 1)) * Pow2(j - 1)])]),
            LAMBDA v : v < bound)

\* the in-range chunks of the hashes from, from + 1, ..., upto of the chain
RECURSIVE ChunkStream(_, _, _, _, _)
ChunkStream(in, from, upto, bits, bound) ==
  IF from > upto THEN <<>>
  ELSE InRangeChunks(Chain(in, from), bits, bound)
         \o ChunkStream(in, from + 1, upto, bits, bound)

\* the first occurrences of the values of a sequence, in order
RECURSIVE FirstOccurrences(_)
FirstOccurrences(s) ==
  IF s = <<>> THEN <<>>
  ELSE LET front == FirstOccurrences(SubSeq(s, 1, Len(s) - 1))
       IN IF \E i \in 1..Len(front) : front[i] = s[Len(s)] THEN front
          ELSE Append(front, s[Len(s)])

\* the stream of challengeC over the hashes 0..k
StreamC(in, k) ==
  ChunkStream(in, 0, k, ceil_log2(in.params.num_rounds), in.params.num_rounds)

\* the index of the last hash consumed for challengeC
LastHashOfC(in) ==
  CHOOSE k \in 0..(MaxChain - 1) :
    /\ Len(FirstOccurrences(StreamC(in, k))) >= in.params.num_opened_rounds
    /\ \A k2 \in 0..(k - 1) :
         Len(FirstOccurrences(StreamC(in, k2))) < in.params.num_opened_rounds

\* the stream of challengeP: from the hash after the last one of challengeC
StreamP(in) ==
  ChunkStream(in, LastHashOfC(in) + 1, MaxChain,
              ceil_log2(in.params.num_MPC_parties), in.params.num_MPC_parties)

HcpReturned == fn # NULL /\ fn.name = "HCP" /\ fn.out # NULL /\ fn.out.outcome = "returns"

\* C21: the lists HCP leaves are a function of the hash chain h0 = H(Ch, Cv
\* root, salt, pubKey, plaintext, message), h(i+1) = H(prefix_1, h(i)):
\* challengeC is the first num_opened_rounds first occurrences of the
\* in-range chunks of h0, h1, ...; challengeP is the first num_opened_rounds
\* in-range chunks, duplicates kept, of the chain from the hash after the
\* last one consumed for challengeC.
C21_ChallengeFromChain ==
  HcpReturned =>
    /\ fn.out.challengeC
         = SubSeq(FirstOccurrences(StreamC(fn.in, LastHashOfC(fn.in))), 1,
                  fn.in.params.num_opened_rounds)
    /\ fn.out.challengeP = SubSeq(StreamP(fn.in), 1, fn.in.params.num_opened_rounds)

\* a call where challengeC took more than one hash and skipped a repeated
\* chunk, and challengeP kept a repeated one
C21_Witness ==
  /\ HcpReturned
  /\ LastHashOfC(fn.in) >= 1
  /\ FirstOccurrences(StreamC(fn.in, LastHashOfC(fn.in))) # StreamC(fn.in, LastHashOfC(fn.in))
  /\ \E i, j \in 1..Len(fn.out.challengeP) : i # j /\ fn.out.challengeP[i] = fn.out.challengeP[j]

(***************************************************************************)
(* HCP: the chunks buffer                                                  *)
(***************************************************************************)
HcpCalled == fn # NULL /\ fn.name = "HCP" /\ fn.out # NULL

\* C30: in HCP the number of chunks bitsToChunks writes never exceeds the
\* capacity of the chunks buffer, floor(8 * digest_size / ceil_log2(
\* num_MPC_parties)) entries, in the challengeC pass as in the challengeP pass.
C30_ChunksFitBuffer ==
  HcpCalled =>
    \A pass \in 1..2 : chunksWritten(fn.in.params)[pass] <= chunksCapacity(fn.in.params)

\* the chunks fit when a chunk of challengeC is at least as long as a chunk
\* of challengeP, and the call then returns
ChunksFitWhenRoundsDominate ==
  (HcpCalled /\ ceil_log2(fn.in.params.num_rounds) >= ceil_log2(fn.in.params.num_MPC_parties))
    => /\ \A pass \in 1..2 :
            chunksWritten(fn.in.params)[pass] <= chunksCapacity(fn.in.params)
       /\ fn.out.outcome = "returns"

\* a call with sixteen parties and three rounds: eight chunks of two bits are
\* written into a buffer of four entries
ChunksOverflowReached ==
  /\ HcpCalled
  /\ chunksWritten(fn.in.params)[1] = 8
  /\ chunksCapacity(fn.in.params) = 4

(***************************************************************************)
(* The input of a proof through serializeSignature2 and                    *)
(* deserializeSignature2                                                   *)
(***************************************************************************)
RoundTripDone ==
  /\ fn # NULL /\ fn.name = "roundtrip" /\ fn.out # NULL
  /\ fn.out.ser.ret # -1

OpenedRounds(s, p) ==
  {r \in 0..(p.num_rounds - 1) : contains(s.challengeC, p.num_opened_rounds, r) = 1}

\* C29: for every parameter set, also where seed_size differs from
\* input_size, deserializeSignature2 stores in proofs[t].input exactly the
\* input_size bytes serializeSignature2 wrote for the round's input, no fewer
\* and no more.
C29_InputCopied ==
  RoundTripDone =>
    /\ ~fn.out.deser.overrun
    /\ fn.out.outcome = "returns"
    /\ \A r \in OpenedRounds(fn.in.sig, fn.in.params) \cap fn.out.deser.allocated :
         fn.out.deser.sig.proofs[r + 1].input = fn.in.sig.proofs[r + 1].input

\* where seed_size is input_size the input comes back and nothing else is
\* written
InputCopiedWhenSizesAgree ==
  (RoundTripDone /\ fn.in.params.seed_size = fn.in.params.input_size) =>
    /\ fn.out.deser.ret = EXIT_SUCCESS
    /\ ~fn.out.deser.overrun
    /\ fn.out.outcome = "returns"
    /\ fn.out.deser.allocated = OpenedRounds(fn.in.sig, fn.in.params)
    /\ \A r \in OpenedRounds(fn.in.sig, fn.in.params) :
         SameProof(fn.out.deser.sig.proofs[r + 1], fn.in.sig.proofs[r + 1],
                   HiddenParty(fn.in.sig, r, fn.in.params)
                     # fn.in.params.num_MPC_parties - 1)

\* a seed shorter than the input: the second byte of the input is not read
InputCutShort ==
  /\ RoundTripDone
  /\ fn.in.params.seed_size < fn.in.params.input_size
  /\ fn.out.deser.ret = EXIT_SUCCESS
  /\ \E r \in OpenedRounds(fn.in.sig, fn.in.params) :
       /\ fn.out.deser.sig.proofs[r + 1].input[1] = fn.in.sig.proofs[r + 1].input[1]
       /\ fn.out.deser.sig.proofs[r + 1].input[2] = 0
       /\ fn.in.sig.proofs[r + 1].input[2] # 0

\* a seed longer than the input: the copy runs past the input
InputOverrun ==
  /\ RoundTripDone
  /\ fn.in.params.seed_size > fn.in.params.input_size
  /\ fn.out.deser.overrun

(***************************************************************************)
(* sign_picnic2, round by round.  What a round has been through is read    *)
(* off what the loops have left for it: its seed tree and tapes, the gates *)
(* of its aux computation, its commitments C[t], its messages, its Ch and  *)
(* Cv hashes.                                                              *)
(***************************************************************************)
SignLoops == <<"sign_seeds", "sign_aux", "sign_commit", "sign_online",
               "sign_commit_hv">>

SignLoopOf(p) == CHOOSE k \in 1..Len(SignLoops) : SignLoops[k] = p

InSignLoop(p) == \E k \in 1..Len(SignLoops) : SignLoops[k] = p

\* the outputs of round r, in the order of the loops that write them
RoundOutputs(sd, tp, ag, c, m, h, r) ==
  <<sd[r + 1] # NULL /\ tp[r + 1] # NULL, ag[r + 1] # NULL, c[r + 1] # NULL,
    m[r + 1] # NULL, h[r + 1] # NULL>>

\* the steps round r has been through: k when exactly the first k outputs
\* exist, -1 when the outputs that exist are not a prefix
StageOf(sd, tp, ag, c, m, h, r) ==
  LET o == RoundOutputs(sd, tp, ag, c, m, h, r)
      n == Cardinality({k \in 1..Len(o) : o[k]})
  IN  IF \A k \in 1..Len(o) : o[k] <=> k <= n THEN n ELSE -1

StageNow(r)  == StageOf(seeds, tapes, auxGates, C, msgs, Ch, r)
StageNext(r) == StageOf(seeds', tapes', auxGates', C', msgs', Ch', r)

\* one iteration of one of the five loops takes round t, which has been
\* through exactly the earlier steps, one step further and no other round
\* anywhere; a loop is left only when every round has been through its step
SignLoopStep ==
  InSignLoop(pc) =>
    LET k == SignLoopOf(pc)
    IN  /\ StageNow(t) = k - 1
        /\ StageNext(t) = k
        /\ \A r \in Rounds \ {t} : StageNext(r) = StageNow(r)
        /\ pc' # pc => \A r \in Rounds : StageNext(r) = k

\* the challenge is written once, when every round is simulated and committed
SignChallengeStep ==
  (pc \in {"impl_sign", "sign_seeds", "sign_aux", "sign_commit", "sign_online",
           "sign_commit_hv", "sign_challenge", "sign_proofs"}
     /\ sig # NULL /\ sig' # NULL /\ sig'.challengeC # sig.challengeC) =>
    /\ pc = "sign_challenge"
    /\ \A r \in Rounds : StageNow(r) = Len(SignLoops)
    /\ \A r \in Rounds : sig.proofs[r + 1] = NULL

\* a proof is written after the challenge, for round t, when t is in challengeC
SignProofStep ==
  \A r \in Rounds :
    (pc \in {"sign_seeds", "sign_aux", "sign_commit", "sign_online",
             "sign_commit_hv", "sign_challenge", "sign_proofs"}
       /\ sig'.proofs[r + 1] # sig.proofs[r + 1]) =>
      /\ pc = "sign_proofs" /\ r = t
      /\ sig.proofs[r + 1] = NULL
      /\ sig'.challengeC = sig.challengeC
      /\ Opened(sig.challengeC, r)
      /\ \A q \in Rounds : StageNow(q) = Len(SignLoops)

\* C22: in sign_picnic2 every round goes through seed expansion and tape
\* creation, aux computation, commitment and online simulation in that order,
\* no step skipped or repeated; the challenge is computed after every round is
\* simulated and committed, and a proof is assembled only after it and only
\* for a round in challengeC
C22_SignRoundOrder ==
  [][SignLoopStep /\ SignChallengeStep /\ SignProofStep]_vars

\* sign_picnic2 has returned: every round went through every step, the
\* rounds of challengeC have a proof and some round has none
C22_Witness ==
  /\ pc = "sign_return"
  /\ \A r \in Rounds : StageNow(r) = Len(SignLoops)
  /\ \E r \in Rounds : Opened(sig.challengeC, r) /\ sig.proofs[r + 1] # NULL
  /\ \E r \in Rounds : ~Opened(sig.challengeC, r) /\ sig.proofs[r + 1] = NULL

(***************************************************************************)
(* verify_picnic2, the opened rounds: when the aux bits of the proof reach *)
(* the round's tapes.                                                      *)
(***************************************************************************)
InVerifyLoops ==
  pc \in {"verify_seeds", "verify_commit", "verify_commit_h", "verify_online"}

VerifyOpened(r) == contains(sig.challengeC, params.num_opened_rounds, r) = 1

\* the tapes of round r as createRandomTapes leaves them
FreshTapes(r) == createRandomTapes(getLeaves(seeds[r + 1]), sig.salt, r, params)

\* the tapes of round r hold the aux bits of the proof: setAuxBits would
\* change nothing
AuxInstalled(tp, r) ==
  /\ tp[r + 1] # NULL
  /\ [setAuxBits(tp[r + 1], sig.proofs[r + 1].aux, params) EXCEPT !.pos = 0]
       = [tp[r + 1] EXCEPT !.pos = 0]

\* the commit loop: the round has its seeds and nothing else; it gets the
\* tapes of createRandomTapes and its commitments
VerifyCommitStep ==
  (pc = "verify_commit" /\ VerifyOpened(t)) =>
    /\ seeds[t + 1] # NULL /\ tapes[t + 1] = NULL /\ C[t + 1] = NULL
    /\ tapes'[t + 1] = FreshTapes(t)
    /\ C'[t + 1] # NULL
    /\ checks.sim[t + 1] = NULL /\ checks'.sim[t + 1] = NULL

\* the online loop: the round has its commitments and their hash, its tapes
\* are still those of createRandomTapes; the aux bits are installed and the
\* simulation runs, and Cv[t] is written when it succeeded
VerifyOnlineStep ==
  (pc = "verify_online" /\ VerifyOpened(t)) =>
    /\ C[t + 1] # NULL /\ Ch[t + 1] # NULL /\ C'[t + 1] = C[t + 1]
    /\ tapes[t + 1] = FreshTapes(t)
    /\ AuxInstalled(tapes', t)
    /\ checks.sim[t + 1] = NULL /\ checks'.sim[t + 1] # NULL
    /\ Cv[t + 1] = NULL
    /\ Cv'[t + 1] # NULL <=> checks'.sim[t + 1] = <<0>>

\* the tapes of a round change in these two loops only, in its own iteration
VerifyTapesFrame ==
  \A r \in Rounds :
    ((InVerifyLoops \/ pc \in {"verify_iseeds", "verify_add_nodes", "verify_merkle",
                               "verify_challenge", "verify_exit"})
       /\ tapes'[r + 1] # tapes[r + 1]) =>
      pc \in {"verify_commit", "verify_online"} /\ r = t

\* C23 as stated: in verify_picnic2 the aux bits of the signature are in the
\* tapes of an opened round (setAuxBits) before the round's commitments
\* C[t][*] are computed
C23_AuxInstalledBeforeCommit ==
  \A r \in Rounds :
    (InVerifyLoops /\ VerifyOpened(r) /\ C[r + 1] # NULL) => AuxInstalled(tapes, r)

\* C23, amended: in verify_picnic2 every opened round follows SEEDED -> TAPED
\* -> COMMITTED -> AUX_INSTALLED -> SIMULATED -> CHECKED: the round's party
\* commitments C[t][*] are computed, the last party's from the aux bytes of
\* the signature, before the aux bits are installed into the round's tape
\* (setAuxBits), and the online re-simulation runs only after those
\* commitments and that installation
C23_CommitBeforeAuxInstalled ==
  [][VerifyCommitStep /\ VerifyOnlineStep /\ VerifyTapesFrame]_vars

\* one opened round simulated with the aux bits in its tapes, another
\* committed whose tapes do not hold them yet
C23_Witness ==
  /\ pc = "verify_online"
  /\ \E r \in Rounds :
       /\ VerifyOpened(r) /\ checks.sim[r + 1] = <<0>> /\ Cv[r + 1] # NULL
       /\ AuxInstalled(tapes, r)
       /\ tapes[r + 1] # FreshTapes(r)
  /\ \E r \in Rounds :
       /\ VerifyOpened(r) /\ C[r + 1] # NULL /\ Ch[r + 1] # NULL
       /\ checks.sim[r + 1] = NULL
       /\ ~AuxInstalled(tapes, r)

(***************************************************************************)
(* sign_picnic2: the cursor of a round's tapes.                            *)
(***************************************************************************)
InSign ==
  pc \in {"sign_seeds", "sign_aux", "sign_commit", "sign_online", "sign_commit_hv",
          "sign_challenge", "sign_proofs", "sign_return"}

\* the AND gates of one LowMC evaluation, and the tape bits it consumes: the
\* n key mask bits, then an output mask bit and a helper bit per gate
AndGates(p) == 3 * p.lowmc.r * p.lowmc.m

TapeBitsConsumed(p) == p.lowmc.n + 2 * AndGates(p)

\* where computeAuxTape's cursor stands when lowmc_aux_impl has returned,
\* before the assignment tapes->pos = 0
CursorAfterAux(tp, p) ==
  LET key       == tapesToWords(p.lowmc.n, tp)
      lowmc_key == Slice(keyBitsLoop(0, key.shares, Zeros(32)), 0, p.lowmc.n \div 8)
  IN  lowmc_aux_impl(lowmc_key, key.tapes, p).tapes.pos

\* the cursor of round r, -1 before its tapes exist
CursorOf(tp, r) == IF tp[r + 1] = NULL THEN -1 ELSE tp[r + 1].pos

\* createRandomTapes leaves the cursor at 0
CursorAtCreation ==
  pc = "sign_seeds" => CursorOf(tapes, t) = -1 /\ CursorOf(tapes', t) = 0

\* computeAuxTape starts at 0, consumes every tape bit, the helper positions
\* it writes ascending and the last of them right below the cursor, and
\* leaves the cursor at 0
CursorInAux ==
  pc = "sign_aux" =>
    /\ CursorOf(tapes, t) = 0
    /\ CursorAfterAux(tapes[t + 1], params) = TapeBitsConsumed(params)
    /\ Len(auxGates'[t + 1]) = AndGates(params)
    /\ \A g \in 1..AndGates(params) :
         auxGates'[t + 1][g].pos = params.lowmc.n + 2 * g - 1
    /\ CursorOf(tapes', t) = 0

\* the online phase starts at 0 and leaves the cursor behind the last bit
CursorInOnline ==
  pc = "sign_online" =>
    /\ CursorOf(tapes, t) = 0
    /\ CursorOf(tapes', t) = TapeBitsConsumed(params)

\* no other step moves a cursor, and between two states none moves back
CursorFrame ==
  InSign =>
    \A r \in Rounds :
      /\ CursorOf(tapes', r) >= CursorOf(tapes, r)
      /\ CursorOf(tapes', r) # CursorOf(tapes, r) =>
           pc \in {"sign_seeds", "sign_online"} /\ r = t

\* C24: in sign_picnic2 the cursor of every round's tapes starts at 0, only
\* increases while tape bits are consumed, is set back to 0 once, at the end
\* of computeAuxTape after the last aux bit was written, the online phase
\* starts reading at 0, and the cursor is not set back during or after it
C24_TapeCursor ==
  [][CursorAtCreation /\ CursorInAux /\ CursorInOnline /\ CursorFrame]_vars

\* one round simulated, its cursor behind the last tape bit, and the next
\* with its aux bits computed and its cursor back at 0
C24_Witness ==
  /\ pc = "sign_online" /\ t > 0
  /\ CursorOf(tapes, t - 1) = TapeBitsConsumed(params)
  /\ CursorOf(tapes, t) = 0
  /\ auxGates[t + 1] # NULL /\ Len(auxGates[t + 1]) = AndGates(params)
  /\ AndGates(params) > 0

(***************************************************************************)
(* verify_picnic2's Exit: what the cleanup loop releases, against what the *)
(* call created.                                                           *)
(***************************************************************************)
\* for (t = 0; t < num_rounds; t++) freeRandomTape(&tapes[t]): every entry of
\* the malloc'd array, whether createRandomTapes filled it or not
exitReleasedTapes(p) == 0..(p.num_rounds - 1)

\* freeTree(seeds[t]) in the same loop: seeds is calloc'd, and freeTree of a
\* null pointer releases nothing
exitReleasedTrees(sd, p) == {r \in 0..(p.num_rounds - 1) : sd[r + 1] # NULL}

TapesCreated == {r \in Rounds : tapes[r + 1] # NULL}

TreesCreated == {r \in Rounds : seeds[r + 1] # NULL}

\* verify_picnic2 has run its Exit block
VerifyCleanedUp == pc \in {"verified", "fault"} /\ checks.iSeeds # NULL

\* C25: on every exit path of verify_picnic2 the cleanup releases each tape
\* and seed tree the call created, once, and none it did not create
C25_CleanupReleasesCreated ==
  VerifyCleanedUp =>
    /\ exitReleasedTapes(params) = TapesCreated
    /\ exitReleasedTrees(seeds, params) = TreesCreated
    /\ pc # "fault"

\* on the paths that leave after the commit loop (simulation failure, Merkle
\* failure, challenge mismatch, acceptance) the cleanup releases what was
\* created, and the seed trees on every path
CleanupReleasesCreatedAfterCommit ==
  VerifyCleanedUp =>
    /\ exitReleasedTrees(seeds, params) = TreesCreated
    /\ (checks.iSeeds = <<0>> /\ \A r \in Rounds : checks.seeds[r + 1] # <<-1>>) =>
         /\ exitReleasedTapes(params) = TapesCreated
         /\ pc # "fault"

\* the iSeed reconstruction failed: no tape was created, every entry released
TapesNeverCreatedReleased ==
  /\ VerifyCleanedUp
  /\ checks.iSeeds # <<0>>
  /\ TapesCreated = {}
  /\ exitReleasedTapes(params) = Rounds

\* a round's seed reconstruction failed: the same, with seed trees created
TapesNeverCreatedReleasedAfterSeeds ==
  /\ VerifyCleanedUp
  /\ checks.iSeeds = <<0>>
  /\ TapesCreated = {} /\ TreesCreated # {}
  /\ pc = "fault"

(***************************************************************************)
(* verify_picnic2 and the seed of the unopened party.  reconstructSeeds    *)
(* leaves that party's leaf of the round's seed tree with no meaning; the  *)
(* steps of an opened round are compared with the same steps on a tree     *)
(* that holds another seed there.                                          *)
(***************************************************************************)
BogusSeeds(p) == {Tup([i \in 1..p.seed_size |-> b]) : b \in {0, 90, 255}}

\* the tree with the seed of leaf j replaced
WithSeed(tree, j, seed) ==
  [tree EXCEPT !.nodes[Pow2(ceil_log2(tree.numLeaves)) + j] = seed]

\* the trees round r's steps could have been given
OtherSeeds(r) ==
  {WithSeed(seeds[r + 1], HiddenParty(sig, r, params), b) : b \in BogusSeeds(params)}

\* the tapes simulateOnline's caller prepares from a seed tree
TapesForOnline(tree, r) ==
  openedTapes(createRandomTapes(getLeaves(tree), sig.salt, r, params),
              sig.proofs[r + 1], HiddenParty(sig, r, params), params)

\* what the online step leaves, from a seed tree
OnlineFrom(tree, r) ==
  LET ms == tapesToWords(params.lowmc.n, TapesForOnline(tree, r))
  IN  simulateOnline(sig.proofs[r + 1].input, ms.shares, ms.tapes,
                     openedMsgs(msgs[r + 1], sig.proofs[r + 1],
                                HiddenParty(sig, r, params), params),
                     plaintext, pubKey, params)

\* the commit step writes the C[t] any seed of the unopened party gives
HiddenSeedCommitStep ==
  (pc = "verify_commit" /\ VerifyOpened(t)) =>
    \A other \in OtherSeeds(t) :
      /\ C'[t + 1] = openedCommitments(other, sig.proofs[t + 1],
                                        HiddenParty(sig, t, params), sig.salt, t,
                                        params)
      /\ C'[t + 1][HiddenParty(sig, t, params) + 1]
           = ReadAt(sig.proofs[t + 1].C, 0, params.digest_size)

\* and commit_h the Ch[t]
HiddenSeedCommitHStep ==
  (pc = "verify_commit_h" /\ VerifyOpened(t)) =>
    \A other \in OtherSeeds(t) :
      Ch'[t + 1] = commit_h(openedCommitments(other, sig.proofs[t + 1],
                                              HiddenParty(sig, t, params),
                                              sig.salt, t, params), params)

\* the online step: the tapes handed to the simulation are the same, the
\* unopened party's all zero and the last party's holding the proof's aux;
\* the simulation leaves the same tapes, msgs, Cv[t], result and next step
HiddenSeedOnlineStep ==
  (pc = "verify_online" /\ VerifyOpened(t)) =>
    LET unopened == HiddenParty(sig, t, params)
        here     == openedTapes(tapes[t + 1], sig.proofs[t + 1], unopened, params)
    IN  /\ tapes[t + 1] = createRandomTapes(getLeaves(seeds[t + 1]), sig.salt, t,
                                            params)
        /\ \A i \in 1..Len(here.tape[unopened + 1]) : here.tape[unopened + 1][i] = 0
        /\ unopened # params.num_MPC_parties - 1 =>
             setAuxBits(here, sig.proofs[t + 1].aux, params) = here
        /\ \A other \in OtherSeeds(t) :
             /\ TapesForOnline(other, t) = here
             /\ LET rv == OnlineFrom(other, t)
                IN  /\ tapes'[t + 1] = rv.tapes
                    /\ msgs'[t + 1] = rv.msgs
                    /\ checks'.sim[t + 1] = <<rv.ret>>
                    /\ ret' = IF rv.ret # 0 THEN -1 ELSE rv.ret
                    /\ pc' = "verify_exit" <=> rv.ret # 0
                    /\ Cv'[t + 1] = IF rv.ret # 0 THEN Cv[t + 1]
                                    ELSE commit_v(sig.proofs[t + 1].input, rv.msgs,
                                                  params)

\* the steps after the seeds are reconstructed that read a round's seed tree
\* or tapes are these; the others leave seeds alone and change tapes nowhere
HiddenSeedFrame ==
  pc \in {"verify_commit_h", "verify_add_nodes", "verify_merkle",
          "verify_challenge", "verify_exit"} =>
    seeds' = seeds /\ tapes' = tapes

\* C26: verification does not depend on the seed reconstructed for the
\* unopened party p of an opened round t: with any other seed in its place
\* C[t][*] and Ch[t] are the same (C[t][p] is the signature's C), the tapes
\* and cursor handed to simulateOnline are the same (party p's tape all zero,
\* party N-1's aux positions holding the signature's aux when p is not N-1),
\* and so are the simulation's result and the return value
C26_HiddenSeedIrrelevant ==
  [][HiddenSeedCommitStep /\ HiddenSeedCommitHStep /\ HiddenSeedOnlineStep
       /\ HiddenSeedFrame]_vars

\* an opened round about to be simulated, its unopened party not the last,
\* for which another seed gives that party another tape and another
\* commitment before the proof's C is copied over it
C26_Witness ==
  /\ pc = "verify_online" /\ VerifyOpened(t)
  /\ HiddenParty(sig, t, params) # params.num_MPC_parties - 1
  /\ \E other \in OtherSeeds(t) :
       LET unopened == HiddenParty(sig, t, params)
       IN  /\ other # seeds[t + 1]
           /\ createRandomTapes(getLeaves(other), sig.salt, t, params).tape[unopened + 1]
                # tapes[t + 1].tape[unopened + 1]
           /\ commitParties(other, sig.salt, t, params)[unopened + 1]
                # commitParties(seeds[t + 1], sig.salt, t, params)[unopened + 1]
           /\ \E i \in 1..Len(tapes[t + 1].tape[unopened + 1]) :
                tapes[t + 1].tape[unopened + 1][i] # 0

(***************************************************************************)
(* computeAuxTape: what it writes.                                         *)
(***************************************************************************)
\* the positions of the helper bits: n + 1 + 2k for the k-th AND gate
HelperPositions(p) == {p.lowmc.n + 1 + 2 * k : k \in 0..(AndGates(p) - 1)}

\* the tape bits of one party
TapeBits(p) == 0..(8 * (2 * p.view_size + p.input_size) - 1)

\* tapes after differ from tapes before in the last party's helper bits only
OnlyHelperBitsChanged(before, after, p) ==
  /\ after.nTapes = before.nTapes
  /\ \A j \in 1..(p.num_MPC_parties - 1) : after.tape[j] = before.tape[j]
  /\ \A i \in TapeBits(p) \ HelperPositions(p) :
       getBit(after.tape[p.num_MPC_parties], i)
         = getBit(before.tape[p.num_MPC_parties], i)

\* the key mask shares and the output masks read from position 0
MasksRead(tp, p) ==
  [key |-> tapesToWords(p.lowmc.n, tp).shares,
   out |-> [k \in 0..(AndGates(p) - 1) |->
              Tup([j \in 1..p.num_MPC_parties |->
                     getBit(tp.tape[j], p.lowmc.n + 2 * k)])]]

\* the call in sign_picnic2's aux loop
AuxFrameInSign ==
  pc = "sign_aux" =>
    /\ OnlyHelperBitsChanged(tapes[t + 1], tapes'[t + 1], params)
    /\ MasksRead(tapes'[t + 1], params) = MasksRead(tapes[t + 1], params)
    /\ \A g \in 1..Len(auxGates'[t + 1]) :
         auxGates'[t + 1][g].pos \in HelperPositions(params)

\* the call in verify_picnic2's commit loop, on the tapes just created
AuxFrameInVerify ==
  (pc = "verify_commit" /\ ~VerifyOpened(t)) =>
    /\ OnlyHelperBitsChanged(FreshTapes(t), tapes'[t + 1], params)
    /\ MasksRead(tapes'[t + 1], params) = MasksRead(FreshTapes(t), params)

\* C27: computeAuxTape changes only party N-1's tape and only at the helper
\* bit positions n + 1 + 2k; every other party's tape and party N-1's bits at
\* the key mask positions 0..n-1 and the output mask positions n + 2k are
\* unchanged, so the masks the online phase reads from position 0 are the
\* ones the aux phase used
C27_AuxTapeFrame == [][AuxFrameInSign /\ AuxFrameInVerify]_vars

\* a round whose aux bits are computed: the last party's tape differs from
\* the one createRandomTapes made, at a helper position
C27_Witness ==
  /\ pc = "sign_commit"
  /\ auxGates[t + 1] # NULL /\ tapes[t + 1].pos = 0
  /\ \E i \in HelperPositions(params) :
       getBit(tapes[t + 1].tape[params.num_MPC_parties], i)
         # getBit(createRandomTapes(getLeaves(seeds[t + 1]), sig.salt, t, params)
                    .tape[params.num_MPC_parties], i)

(***************************************************************************)
(* The lookup matrix by itself: mzd.lookup is the B that                   *)
(* mzd_precompute_matrix_lookup returned for mzd.job.A.                    *)
(***************************************************************************)
LookupBuilt == mzd.call \in {"mul_vl", "addmul_vl"}

\* the data words of row r
RowWords(M, r) == Region(M, ROW(M, r), M.width)

\* the groups of LookupBits rows of A (8 rows at full scale)
RowGroups(A) == 0..((A.nrows \div LookupBits) - 1)

\* the XOR of the rows first + bit of A over the bits set in combo
XorOfRows(A, first, combo) ==
  Tup([j \in 1..A.width |->
    Tup([b \in 1..WordBits |->
      Cardinality({i \in 0..(LookupBits - 1) :
                     /\ (combo \div Pow2(i)) % 2 = 1
                     /\ RowWords(A, first + i)[j][b] = 1}) % 2])])

\* C28 as stated, at the model's scale (8 rows are LookupBits, 256 combos
\* LookupRows): B has 256 rows for a row of A, and row 8k + combo of B is the
\* XOR of the rows 8k + bit of A over the bits set in combo
C28_LookupRowsAsStated ==
  LookupBuilt =>
    /\ mzd.lookup.nrows = LookupRows * mzd.job.A.nrows
    /\ \A k \in RowGroups(mzd.job.A), combo \in 0..(LookupRows - 1) :
         RowWords(mzd.lookup, LookupBits * k + combo)
           = XorOfRows(mzd.job.A, LookupBits * k, combo)

\* the same with the row index alone
LookupRowIndexAsStated ==
  LookupBuilt =>
    \A k \in RowGroups(mzd.job.A), combo \in 0..(LookupRows - 1) :
      RowWords(mzd.lookup, LookupBits * k + combo)
        = XorOfRows(mzd.job.A, LookupBits * k, combo)

\* C28, amended: B = mzd_precompute_matrix_lookup(A) is a 32-fold expansion of
\* A (256 rows of B for every group of 8 rows of A) in which, for every byte
\* group k and every combo in 0..255, row 256k + combo of B equals the XOR of
\* the rows 8k + bit of A over the bits set in combo
C28_LookupRows ==
  LookupBuilt =>
    /\ mzd.lookup.nrows = LookupExpansion * mzd.job.A.nrows
    /\ mzd.lookup.nrows = LookupRows * Cardinality(RowGroups(mzd.job.A))
    /\ mzd.lookup.ncols = mzd.job.A.ncols
    /\ \A k \in RowGroups(mzd.job.A), combo \in 0..(LookupRows - 1) :
         RowWords(mzd.lookup, LookupRows * k + combo)
           = XorOfRows(mzd.job.A, LookupBits * k, combo)

\* a lookup matrix of several groups in which, in a group after the first,
\* the row of the full combo is neither zero nor a row of A
C28_Witness ==
  /\ LookupBuilt
  /\ Cardinality(RowGroups(mzd.job.A)) > 2
  /\ \E k \in RowGroups(mzd.job.A) \ {0} :
       LET row == RowWords(mzd.lookup, LookupRows * k + LookupRows - 1)
       IN  /\ \E j \in 1..Len(row) : row[j] # MaskWord(0)
           /\ \A i \in 0..(LookupBits - 1) :
                row # RowWords(mzd.job.A, LookupBits * k + i)

====
